---- MODULE Spec2Model ----
(***************************************************************************)
(* A model of the tree-walk engine of libgadget/treewalk.c: the work queue *)
(* (treewalk_build_queue), the export table (treewalk_export_particle),    *)
(* the top-tree, primary and secondary phases, the exchange of queries and *)
(* results and the retry loop of treewalk_run.                             *)
(***************************************************************************)
EXTENDS Integers, Sequences, FiniteSets, TLC

\* ------------------------------------------------------------------ bounds
\* Particles of the queue model are 0 .. MaxPart-1.
MaxPart == 2
\* Longest active set handed to treewalk_build_queue.
MaxLen == 3
\* Largest omp_get_max_threads() of the queue model.
MaxThread == 2
\* The box and the largest smoothing length of the calls of cull_node.
CullBox == 8
MaxHsml == 3
\* The longest queue of the chunk loop under every number of threads, a
\* queue that gives two threads chunks of 2, and one that gives one thread
\* chunks of 100.
MaxQueue == 8
MidQueue == 16
BigQueue == 404

\* Number of MPI tasks (NTask) of the walk and run models.
MaxTask == 3
\* Largest tw->BunchSize (entries of DataIndexTable) of the run model.
MaxBunch == 5
\* Sub-iterations of the retry loop a task of the run model may start.
MaxIter == 3
\* Largest number of garbage particles in the particle table of the walk model.
MaxGarbage == 1
\* Pseudo-nodes a thread's top-tree pass meets in the export model.
MaxLeaf == 5

VARIABLES
    \* ---- one call of a visitor
    v_pc,          \* "call" | "returned"
    v_in,          \* the arguments: the visitor, the task, lv, the query, P
    v_out,         \* what the visitor returned
    \* ---- treewalk_run on every task
    r_in,          \* the run's configuration: owner, NThread, BunchSize, Hsml, symmetric
    pc,            \* pc[task]: where the task is in treewalk_run
    tw,            \* tw[task]: the fields of TreeWalk the retry loop uses
    DataIndexTable,\* DataIndexTable[task][0 .. BunchSize-1]
    currentIndex,  \* currentIndex[task]: the shared chunk counter of ev_toptree
    thr,           \* thr[task][tid]: the locals of a thread of ev_toptree
    counts,        \* counts[task]: struct ImpExpCounts
    chanQ,         \* chanQ[from][to]: queries sent and not yet received
    chanR,         \* chanR[from][to]: results sent and not yet received
    Ndone,         \* Ndone[task]: the local Ndone of treewalk_run
    subiter,       \* history: subiter[task], the sub-iterations the task completed
    redlog,        \* history: redlog[task], the calls of tw->reduce in order
    kcalls,        \* history: kcalls[task], kernel calls with other >= 0
    flaghist,      \* history: per sub-iteration, the tasks with BufferFullFlag
    \* ---- treewalk_build_queue
    q_pc,          \* "idle" (not this specification) | "scan" | "done"
    q_in,          \* the call's arguments and the particle table it reads
    q_scanned,     \* loop indices i already executed (by their thread)
    thrqueue,      \* thrqueue[tid]: the survivors thread tid wrote, nqthr = Len
    WorkSet,       \* tw->WorkSet
    WorkSetSize,   \* tw->WorkSetSize
    work_set_stolen_from_active,
    \* ---- treewalk_export_particle called by one thread's top-tree pass
    x_pc,          \* "idle" | "between" | "walk" | "full" | "endrun"
    x_in,          \* tree->TopLeaves, the thread's BunchSize and lv->mode
    x_lv,          \* the thread's LocalTreeWalk
    x_table,       \* the thread's slice of DataIndexTable
    x_calls,       \* history: the calls made, in order
    \* ---- the entry of treewalk_run: the tree check and ev_begin
    b_pc,          \* "idle" | "treewalk_run" | "ev_begin" | "preprocess" | "loop" | "endrun"
    b_in,          \* the tree, the element sizes, the free memory, ImportBufferBoost
    b_tw,          \* tw->BunchSize and whether DataIndexTable is allocated
    b_log,         \* history: what has run, in order
    \* ---- one call of a visitor on a single process
    s_pc,          \* "idle" | "call" | "returned"
    s_in,          \* the particles, the tree built over them and the query
    s_out,         \* what the visitor returned
    \* ---- treewalk_do_hsml_loop on every task
    h_pc,          \* "idle" | "run" | "allreduce" | "done" | "endrun"
    h_in,          \* update_hsml, MAXITER and the redo lists each pass leaves
    h_st,          \* h_st[task]: the queue, Niteration and where the task is
    h_log,         \* history: h_log[task], the queues treewalk_run was given
    \* ---- one call of ngb_narrow_down
    n_pc,          \* "idle" | "call" | "returned"
    n_in,          \* right, left, radius, numNgb, maxcmpt, desnumngb, BoxSize
    n_out,         \* the returned hsml and the updated right, left, closeidx
    \* ---- the chunk loop of ev_toptree on one task
    c_pc,          \* "idle" | "threads" | "joined"
    c_in,          \* WorkSetSize, WorkSetStart and NThread of the pass
    c_cur,         \* currentIndex, the shared chunk counter
    c_thr,         \* c_thr[tid]: the locals of a thread of the parallel region
    c_log,         \* history: the chunks claimed, in the order of the fetch-and-adds
    \* ---- the two exchanges of one sub-iteration of treewalk_run
    e_pc,          \* "idle" | "run"
    e_in,          \* Export_count of every task after ev_export_import_counts
    e_st,          \* e_st[task]: where the task is and its four CommBuffers
    e_log,         \* history: e_log[task], what ev_secondary and the reducer read
    \* ---- one call of cull_node
    k_pc,          \* "idle" | "call" | "returned"
    k_in,          \* the node, a particle in its cube and the query
    k_out          \* what cull_node returned

qvars == <<q_pc, q_in, q_scanned, thrqueue, WorkSet, WorkSetSize,
           work_set_stolen_from_active>>

vvars == <<v_pc, v_in, v_out>>

rvars == <<r_in, pc, tw, DataIndexTable, currentIndex, thr, counts, chanQ, chanR,
           Ndone, subiter, redlog, kcalls, flaghist>>

xvars == <<x_pc, x_in, x_lv, x_table, x_calls>>

bvars == <<b_pc, b_in, b_tw, b_log>>

svars == <<s_pc, s_in, s_out>>

hvars == <<h_pc, h_in, h_st, h_log>>

nvars == <<n_pc, n_in, n_out>>

cvars == <<c_pc, c_in, c_cur, c_thr, c_log>>

evars == <<e_pc, e_in, e_st, e_log>>

kvars == <<k_pc, k_in, k_out>>

vars == <<qvars, vvars, rvars, xvars, bvars, svars, hvars, nvars, cvars, evars, kvars>>

\* What the actions of one specification leave alone.
notqvars == <<vvars, rvars, xvars, bvars, svars, hvars, nvars, cvars, evars, kvars>>
notvvars == <<qvars, rvars, xvars, bvars, svars, hvars, nvars, cvars, evars, kvars>>
notrvars == <<qvars, vvars, xvars, bvars, svars, hvars, nvars, cvars, evars, kvars>>
notxvars == <<qvars, vvars, rvars, bvars, svars, hvars, nvars, cvars, evars, kvars>>
notbvars == <<qvars, vvars, rvars, xvars, svars, hvars, nvars, cvars, evars, kvars>>
notsvars == <<qvars, vvars, rvars, xvars, bvars, hvars, nvars, cvars, evars, kvars>>
nothvars == <<qvars, vvars, rvars, xvars, bvars, svars, nvars, cvars, evars, kvars>>
notnvars == <<qvars, vvars, rvars, xvars, bvars, svars, hvars, cvars, evars, kvars>>
notcvars == <<qvars, vvars, rvars, xvars, bvars, svars, hvars, nvars, evars, kvars>>
notevars == <<qvars, vvars, rvars, xvars, bvars, svars, hvars, nvars, cvars, kvars>>
notkvars == <<qvars, vvars, rvars, xvars, bvars, svars, hvars, nvars, cvars, evars>>

\* ------------------------------------------------------------- helpers
Min(a, b) == IF a < b THEN a ELSE b
Max(a, b) == IF a > b THEN a ELSE b

RECURSIVE SeqsUpTo(_, _)
\* All sequences over S of length at most n.
SeqsUpTo(S, n) ==
    IF n = 0 THEN {<<>>}
    ELSE LET shorter == SeqsUpTo(S, n - 1)
         IN  shorter \cup {Append(s, x) : s \in {t \in shorter : Len(t) = n - 1}, x \in S}

RECURSIVE FilterSeq(_, _)
\* The subsequence of s whose elements are in Keep, in order: s filtered
\* sequentially.
FilterSeq(s, Keep) ==
    IF s = <<>> THEN <<>>
    ELSE IF Head(s) \in Keep THEN <<Head(s)>> \o FilterSeq(Tail(s), Keep)
         ELSE FilterSeq(Tail(s), Keep)

\* ------------------------------------------------------- tree and particles
\* r2 > (h + 0.5 * len + FACT1 * len)^2, the test against the sphere that
\* encloses the node, for integers r2, h and len.  #define FACT1
\* 0.366025403785 is 0.5 * (sqrt(3) - 1) written to twelve decimals (it
\* exceeds it by less than 1e-12), so the right side is (h + sqrt(3)/2 *
\* len)^2 up to a relative 1e-11, and the comparison is that of x =
\* 4 r2 - 4 h^2 - 3 len^2 with 4 sqrt(3) h len: the two differ by at least
\* 1 / (2 x) when they differ, far more than the twelfth decimal moves.
BeyondSphere(r2, h, len) ==
    LET x == 4 * r2 - 4 * h * h - 3 * len * len
    IN  x > 0 /\ x * x > 48 * h * h * len * len

\* #define NODELISTLENGTH 2 (the model numbers the two slots 1 and 2).
NODELISTLENGTH == 2

\* enum TreeWalkReduceMode and lv->mode.
TREEWALK_PRIMARY == "PRIMARY"
TREEWALK_GHOSTS  == "GHOSTS"
TREEWALK_TOPTREE == "TOPTREE"

\* f.ChildType of a node.
PARTICLE_NODE_TYPE == "PARTICLE"
PSEUDO_NODE_TYPE   == "PSEUDO"
NODE_NODE_TYPE     == "NODE"

\* The distributed tree the walks run on: a periodic box of side 16 whose
\* occupied octants are split along x.  Particles are 0..3 (below
\* firstnode), tree nodes 4..10, pseudo-particles 11..13 (from lastnode).
\*   4 root [0,16)  -> 5 (top-leaf [0,8)), 6 (internal top node [8,16))
\*   6              -> 7 (top-leaf [8,12)), 8 (top-leaf [12,16))
\*   5 on its owner -> 9 ([0,4)), 10 ([4,8)): local particle leaves
tree ==
    [ BoxSize |-> 16, firstnode |-> 4, lastnode |-> 11, NumParticles |-> 4,
      mask |-> {0, 1}, hmax_computed_flag |-> TRUE ]

Particles == 0 .. tree.NumParticles - 1

\* P[i].Pos
Pos == [i \in Particles |->
          CASE i = 0 -> <<1, 2, 2>>
            [] i = 1 -> <<6, 2, 2>>
            [] i = 2 -> <<9, 2, 2>>
            [] i = 3 -> <<15, 2, 2>>]

\* The top-leaf holding each particle, and the top-leaves.
LeafOf == [i \in Particles |-> CASE i \in {0, 1} -> 5 [] i = 2 -> 7 [] i = 3 -> 8]
TopLeafNodes == {5, 7, 8}

\* The pseudo-particle standing for a top-leaf on the tasks that do not own it.
PseudoOf(leaf) == CASE leaf = 5 -> 11 [] leaf = 7 -> 12 [] leaf = 8 -> 13

\* tree->TopLeaves[pseudo - lastnode]: the owning task and the node to walk there.
TopLeaves(owner) ==
    [j \in 0 .. 2 |->
        LET leaf == CASE j = 0 -> 5 [] j = 1 -> 7 [] j = 2 -> 8
        IN  [Task |-> owner[leaf], treenode |-> leaf]]

\* Particles below a node.
Contained(no) ==
    CASE no = 4 -> {0, 1, 2, 3}
      [] no = 5 -> {0, 1}
      [] no = 6 -> {2, 3}
      [] no = 7 -> {2}
      [] no = 8 -> {3}
      [] no = 9 -> {0}
      [] no = 10 -> {1}

SetMax(S) == IF S = {} THEN 0 ELSE CHOOSE x \in S : \A y \in S : y <= x
SetMin(S) == IF S = {} THEN 0 ELSE CHOOSE x \in S : \A y \in S : x <= y

\* tree->Nodes as task `task` holds it: a top-leaf is a local node on its
\* owner and a pseudo node elsewhere; mom.hmax is the largest Hsml below.
Nodes(task, owner, Hsml) ==
    [no \in tree.firstnode .. tree.lastnode - 1 |->
        LET local == IF no \in TopLeafNodes THEN owner[no] = task ELSE TRUE
            geo == CASE no = 4  -> [center |-> <<8, 8, 8>>,  len |-> 16, sibling |-> -1]
                     [] no = 5  -> [center |-> <<4, 4, 4>>,  len |-> 8,  sibling |-> 6]
                     [] no = 6  -> [center |-> <<12, 4, 4>>, len |-> 8,  sibling |-> -1]
                     [] no = 7  -> [center |-> <<10, 2, 2>>, len |-> 4,  sibling |-> 8]
                     [] no = 8  -> [center |-> <<14, 2, 2>>, len |-> 4,  sibling |-> -1]
                     [] no = 9  -> [center |-> <<2, 2, 2>>,  len |-> 4,  sibling |-> 10]
                     [] no = 10 -> [center |-> <<6, 2, 2>>,  len |-> 4,  sibling |-> 6]
            kind == CASE no \in {4, 6} -> [ChildType |-> NODE_NODE_TYPE,
                                           suns |-> IF no = 4 THEN <<5>> ELSE <<7>>]
                      [] no = 5 -> IF local THEN [ChildType |-> NODE_NODE_TYPE, suns |-> <<9>>]
                                   ELSE [ChildType |-> PSEUDO_NODE_TYPE, suns |-> <<PseudoOf(no)>>]
                      [] no \in {7, 8} ->
                            IF local THEN [ChildType |-> PARTICLE_NODE_TYPE,
                                           suns |-> IF no = 7 THEN <<2>> ELSE <<3>>]
                            ELSE [ChildType |-> PSEUDO_NODE_TYPE, suns |-> <<PseudoOf(no)>>]
                      [] no \in {9, 10} -> [ChildType |-> PARTICLE_NODE_TYPE,
                                            suns |-> IF no = 9 THEN <<0>> ELSE <<1>>]
        IN  [ center |-> geo.center, len |-> geo.len, sibling |-> geo.sibling,
              hmax |-> SetMax({Hsml[i] : i \in Contained(no)}),
              TopLevel |-> no \in {4, 5, 6, 7, 8},
              InternalTopLevel |-> no \in {4, 6},
              ChildType |-> kind.ChildType,
              suns |-> kind.suns,
              noccupied |-> IF kind.ChildType = PARTICLE_NODE_TYPE THEN Len(kind.suns) ELSE 0 ]]

\* NEAREST(x, BoxSize): the periodic nearest image of a displacement.
NEAREST(x, BoxSize) ==
    IF 2 * x > BoxSize THEN x - BoxSize
    ELSE IF 2 * x < -BoxSize THEN x + BoxSize
    ELSE x

\* The mutated cull: the symmetric case forgets the node's hmax.
cull_node_nohmax(I, iter, current, BoxSize) ==
    LET dx(d) == NEAREST(current.center[d] - I.Pos[d], BoxSize)
        h == iter.Hsml
        dist2 == 2 * h + current.len
        r2 == dx(1) * dx(1) + dx(2) * dx(2) + dx(3) * dx(3)
    IN  IF \E d \in 1 .. 3 : 2 * dx(d) > dist2 \/ 2 * dx(d) < -dist2 THEN 0
        ELSE IF BeyondSphere(r2, h, current.len) THEN 0
        ELSE 1

\* cull_node: 1 if the node shall be opened, 0 if it has no business with
\* the query.  dist2 is twice dist (0.5 * len need not be an integer); h
\* is the part of dist that comes from the smoothing lengths.
cull_node(I, iter, current, BoxSize) ==
    LET dx(d) == NEAREST(current.center[d] - I.Pos[d], BoxSize)
        h == IF iter.symmetric THEN Max(current.hmax, iter.Hsml) ELSE iter.Hsml
        dist2 == 2 * h + current.len
        r2 == dx(1) * dx(1) + dx(2) * dx(2) + dx(3) * dx(3)
    IN  IF \E d \in 1 .. 3 : 2 * dx(d) > dist2 \/ 2 * dx(d) < -dist2 THEN 0
        ELSE IF BeyondSphere(r2, h, current.len) THEN 0
        ELSE 1

\* ----------------------------------------------------------- export table
\* An entry of DataIndexTable; Junk is memory no export has written yet.
Junk == [Task |-> -9, Index |-> -9, NodeList |-> <<-9, -9>>]

\* The outcome of a call that can end the job: fatal names the endrun.
NoFatal == "none"

\* The mutated export: the coalescing test forgets that the previous entry
\* must belong to the current target (NThisParticleExport >= 1).
treewalk_export_particle_anyprev(lv, no, table, topleaves) ==
    IF lv.mode # TREEWALK_TOPTREE \/ no < tree.lastnode
    THEN [rt |-> 0, lv |-> lv, table |-> table, fatal |-> "export not from a toptree"]
    ELSE
    LET leaf == topleaves[no - tree.lastnode]
        nexp == lv.Nexport + lv.DataIndexOffset
    IN  IF /\ lv.Nexport >= 1
           /\ table[nexp - 1].Task = leaf.Task
           /\ table[nexp - 1].NodeList[2] = -1
        THEN [rt |-> 0, lv |-> lv, fatal |-> NoFatal,
              table |-> [table EXCEPT ![nexp - 1].NodeList[2] = leaf.treenode]]
        ELSE IF lv.Nexport >= lv.BunchSize
        THEN [rt |-> -1, lv |-> lv, table |-> table, fatal |-> NoFatal]
        ELSE [rt |-> 0, fatal |-> NoFatal,
              lv |-> [lv EXCEPT !.Nexport = @ + 1, !.NThisParticleExport = @ + 1],
              table |-> [table EXCEPT ![nexp] =
                            [Task |-> leaf.Task, Index |-> lv.target,
                             NodeList |-> <<leaf.treenode, -1>>]]]

\* The mutated export: the coalescing test forgets that the second slot of
\* the previous entry must be free, and overwrites it.
treewalk_export_particle_overwrite(lv, no, table, topleaves) ==
    IF lv.mode # TREEWALK_TOPTREE \/ no < tree.lastnode
    THEN [rt |-> 0, lv |-> lv, table |-> table, fatal |-> "export not from a toptree"]
    ELSE
    LET leaf == topleaves[no - tree.lastnode]
        nexp == lv.Nexport + lv.DataIndexOffset
    IN  IF /\ lv.NThisParticleExport >= 1
           /\ table[nexp - 1].Task = leaf.Task
        THEN [rt |-> 0, lv |-> lv, fatal |-> NoFatal,
              table |-> [table EXCEPT ![nexp - 1].NodeList[2] = leaf.treenode]]
        ELSE IF lv.Nexport >= lv.BunchSize
        THEN [rt |-> -1, lv |-> lv, table |-> table, fatal |-> NoFatal]
        ELSE [rt |-> 0, fatal |-> NoFatal,
              lv |-> [lv EXCEPT !.Nexport = @ + 1, !.NThisParticleExport = @ + 1],
              table |-> [table EXCEPT ![nexp] =
                            [Task |-> leaf.Task, Index |-> lv.target,
                             NodeList |-> <<leaf.treenode, -1>>]]]

\* The mutated export: the mode of the caller is not checked.
treewalk_export_particle_anymode(lv, no, table, topleaves) ==
    IF no < tree.lastnode
    THEN [rt |-> 0, lv |-> lv, table |-> table, fatal |-> "export not from a toptree"]
    ELSE
    LET leaf == topleaves[no - tree.lastnode]
        nexp == lv.Nexport + lv.DataIndexOffset
    IN  IF /\ lv.NThisParticleExport >= 1
           /\ table[nexp - 1].Task = leaf.Task
           /\ table[nexp - 1].NodeList[2] = -1
        THEN [rt |-> 0, lv |-> lv, fatal |-> NoFatal,
              table |-> [table EXCEPT ![nexp - 1].NodeList[2] = leaf.treenode]]
        ELSE IF lv.Nexport >= lv.BunchSize
        THEN [rt |-> -1, lv |-> lv, table |-> table, fatal |-> NoFatal]
        ELSE [rt |-> 0, fatal |-> NoFatal,
              lv |-> [lv EXCEPT !.Nexport = @ + 1, !.NThisParticleExport = @ + 1],
              table |-> [table EXCEPT ![nexp] =
                            [Task |-> leaf.Task, Index |-> lv.target,
                             NodeList |-> <<leaf.treenode, -1>>]]]

\* The mutated export: it never coalesces, every pseudo-node met takes an
\* entry of its own.
treewalk_export_particle_nocoalesce(lv, no, table, topleaves) ==
    IF lv.mode # TREEWALK_TOPTREE \/ no < tree.lastnode
    THEN [rt |-> 0, lv |-> lv, table |-> table, fatal |-> "export not from a toptree"]
    ELSE
    LET leaf == topleaves[no - tree.lastnode]
        nexp == lv.Nexport + lv.DataIndexOffset
    IN  IF lv.Nexport >= lv.BunchSize
        THEN [rt |-> -1, lv |-> lv, table |-> table, fatal |-> NoFatal]
        ELSE [rt |-> 0, fatal |-> NoFatal,
              lv |-> [lv EXCEPT !.Nexport = @ + 1, !.NThisParticleExport = @ + 1],
              table |-> [table EXCEPT ![nexp] =
                            [Task |-> leaf.Task, Index |-> lv.target,
                             NodeList |-> <<leaf.treenode, -1>>]]]

\* The mutated export: the test for a full slice comes first, so a full
\* slice refuses a pseudo-node that the previous entry had room for.
treewalk_export_particle_fullfirst(lv, no, table, topleaves) ==
    IF lv.mode # TREEWALK_TOPTREE \/ no < tree.lastnode
    THEN [rt |-> 0, lv |-> lv, table |-> table, fatal |-> "export not from a toptree"]
    ELSE
    LET leaf == topleaves[no - tree.lastnode]
        nexp == lv.Nexport + lv.DataIndexOffset
    IN  IF lv.Nexport >= lv.BunchSize
        THEN [rt |-> -1, lv |-> lv, table |-> table, fatal |-> NoFatal]
        ELSE IF /\ lv.NThisParticleExport >= 1
                /\ table[nexp - 1].Task = leaf.Task
                /\ table[nexp - 1].NodeList[2] = -1
        THEN [rt |-> 0, lv |-> lv, fatal |-> NoFatal,
              table |-> [table EXCEPT ![nexp - 1].NodeList[2] = leaf.treenode]]
        ELSE [rt |-> 0, fatal |-> NoFatal,
              lv |-> [lv EXCEPT !.Nexport = @ + 1, !.NThisParticleExport = @ + 1],
              table |-> [table EXCEPT ![nexp] =
                            [Task |-> leaf.Task, Index |-> lv.target,
                             NodeList |-> <<leaf.treenode, -1>>]]]

\* treewalk_export_particle(lv, no): no is the pseudo-particle of the node
\* met, topleaves is tree->TopLeaves.  Returns rt (0, or -1 when the slice is full), the thread's lv and
\* the table, or the endrun it ended in.
treewalk_export_particle(lv, no, table, topleaves) ==
    IF lv.mode # TREEWALK_TOPTREE \/ no < tree.lastnode
    THEN [rt |-> 0, lv |-> lv, table |-> table, fatal |-> "export not from a toptree"]
    ELSE
    LET leaf == topleaves[no - tree.lastnode]
        nexp == lv.Nexport + lv.DataIndexOffset
    IN  IF /\ lv.NThisParticleExport >= 1
           /\ table[nexp - 1].Task = leaf.Task
           /\ table[nexp - 1].NodeList[2] = -1
        THEN [rt |-> 0, lv |-> lv, fatal |-> NoFatal,
              table |-> [table EXCEPT ![nexp - 1].NodeList[2] = leaf.treenode]]
        ELSE IF lv.Nexport >= lv.BunchSize
        THEN [rt |-> -1, lv |-> lv, table |-> table, fatal |-> NoFatal]
        ELSE [rt |-> 0, fatal |-> NoFatal,
              lv |-> [lv EXCEPT !.Nexport = @ + 1, !.NThisParticleExport = @ + 1],
              table |-> [table EXCEPT ![nexp] =
                            [Task |-> leaf.Task, Index |-> lv.target,
                             NodeList |-> <<leaf.treenode, -1>>]]]

\* ------------------------------------------------------------ the descent
\* The state a walk threads through: the thread's lv and export table, the
\* neighbour list, the nodes visited (in order), and how it ended.
WalkState(lv, table) ==
    [lv |-> lv, table |-> table, ngblist |-> <<>>, visited |-> <<>>,
     rt |-> 0, fatal |-> NoFatal]

\* The mutated test: a toptree walk descends below every node.
TopTreeLeaf_never(current) == FALSE

\* Only walk toptree nodes: a top-level node that is not internal is
\* passed sideways by a toptree walk.
TopTreeLeaf(current) == current.TopLevel /\ ~current.InternalTopLevel

\* The mutated test: a walk of exported particles never stops at a
\* top-level node.
BranchDone_never(mode, current, no, startnode) == FALSE

\* A walk of exported particles is done with its branch when it gets to a
\* top-level node that is not the one it started from.
BranchDone(mode, current, no, startnode) ==
    mode = TREEWALK_GHOSTS /\ current.TopLevel /\ no # startnode

RECURSIVE ngb_treefind_from(_, _, _, _, _, _, _)
\* The loop of ngb_treefind_threads from node no on.
ngb_treefind_from(nodes, owner, I, iter, startnode, no, st) ==
    IF no < 0 THEN [st EXCEPT !.rt = Len(st.ngblist)]
    ELSE IF no < tree.firstnode
    THEN [st EXCEPT !.fatal = "particle node reached"]
    ELSE IF no >= tree.lastnode
    THEN [st EXCEPT !.fatal = "pseudo particle reached"]
    ELSE
    LET current == nodes[no]
        st1 == [st EXCEPT !.visited = Append(@, no)]
    IN  IF BranchDone(st.lv.mode, current, no, startnode)
        THEN [st EXCEPT !.rt = Len(st.ngblist)]
        ELSE IF cull_node(I, iter, current, st.lv.tree.BoxSize) = 0
        THEN ngb_treefind_from(nodes, owner, I, iter, startnode, current.sibling, st1)
        ELSE IF st.lv.mode = TREEWALK_TOPTREE
        THEN IF current.ChildType = PSEUDO_NODE_TYPE
             THEN LET e == treewalk_export_particle(st.lv, current.suns[1], st.table, TopLeaves(owner))
                      st2 == [st1 EXCEPT !.lv = e.lv, !.table = e.table]
                  IN  IF e.fatal # NoFatal THEN [st2 EXCEPT !.fatal = e.fatal]
                      ELSE IF e.rt = -1 THEN [st2 EXCEPT !.rt = -1]
                      ELSE ngb_treefind_from(nodes, owner, I, iter, startnode,
                                             current.sibling, st2)
             ELSE IF TopTreeLeaf(current)
             THEN ngb_treefind_from(nodes, owner, I, iter, startnode, current.sibling, st1)
             ELSE ngb_treefind_from(nodes, owner, I, iter, startnode, current.suns[1], st1)
        ELSE IF current.ChildType = PARTICLE_NODE_TYPE
             THEN ngb_treefind_from(nodes, owner, I, iter, startnode, current.sibling,
                     [st1 EXCEPT !.ngblist = @ \o SubSeq(current.suns, 1, current.noccupied)])
             ELSE IF current.ChildType = PSEUDO_NODE_TYPE
             THEN IF st.lv.mode = TREEWALK_GHOSTS
                  THEN [st1 EXCEPT !.fatal = "secondary found pseudo"]
                  ELSE ngb_treefind_from(nodes, owner, I, iter, startnode,
                                         current.sibling, st1)
             ELSE ngb_treefind_from(nodes, owner, I, iter, startnode, current.suns[1], st1)

\* ngb_treefind_threads(I, iter, startnode, lv): rt is numcand, or -1 when
\* the export buffer is full.
ngb_treefind_threads(nodes, owner, I, iter, startnode, st) ==
    ngb_treefind_from(nodes, owner, I, iter, startnode, startnode,
                      [st EXCEPT !.ngblist = <<>>])

\* ------------------------------------------------------------ the visitors
\* NGB_TREEFIND_SYMMETRIC / NGB_TREEFIND_ASYMMETRIC are TRUE / FALSE.
\* The kernel of the model: called with other = -1 it copies Hsml, mask and
\* symmetric from the query (where fill put them); called with a neighbour
\* it appends the neighbour to its result.
KernelInit(I) == [Hsml |-> I.Hsml, mask |-> I.mask, symmetric |-> I.symmetric]

\* iter->r = sqrt(r2): the root is kept by the number it is the root of.
sqrt(r2) == [sqrt |-> r2]

\* The mutated kick-start: iter->other is left at a particle number.
InitCall_other0 == [other |-> 0, r |-> sqrt(0), r2 |-> 0, dist |-> <<0, 0, 0>>]

\* A call of tw->ngbiter as the kernel sees it: the kick-start call has
\* other = -1 (r, r2 and dist are not set yet; the kernel does not read them).
InitCall == [other |-> -1, r |-> sqrt(0), r2 |-> 0, dist |-> <<0, 0, 0>>]

\* The distance loop of both visitors: r2 summed over the axes, leaving at
\* the first axis where it exceeds h2.  Returns r2 and the displacement.
DistanceLoop(I, Ppos, h2, BoxSize) ==
    LET dist == [d \in 1 .. 3 |-> NEAREST(I.Pos[d] - Ppos[d], BoxSize)]
        r2_1 == dist[1] * dist[1]
        r2_2 == r2_1 + dist[2] * dist[2]
        r2_3 == r2_2 + dist[3] * dist[3]
    IN  [dist |-> dist,
         r2 |-> IF r2_1 > h2 THEN r2_1 ELSE IF r2_2 > h2 THEN r2_2 ELSE r2_3]

\* The mutated candidate test: garbage is not skipped.
AcceptCandidate_nogarbage(P, I, iter, other, symmetric_aware, BoxSize) ==
    IF ~(P.Type[other] \in iter.mask) THEN <<>>
    ELSE LET dist == IF symmetric_aware /\ iter.symmetric
                     THEN Max(P.Hsml[other], iter.Hsml) ELSE iter.Hsml
             h2 == dist * dist
             dl == DistanceLoop(I, P.Pos[other], h2, BoxSize)
         IN  IF dl.r2 > h2 THEN <<>>
             ELSE <<[other |-> other, r |-> sqrt(dl.r2), r2 |-> dl.r2, dist |-> dl.dist]>>

\* The mutated candidate test: a candidate at the radius itself is left out.
AcceptCandidate_strict(P, I, iter, other, symmetric_aware, BoxSize) ==
    IF P.IsGarbage[other] THEN <<>>
    ELSE IF ~(P.Type[other] \in iter.mask) THEN <<>>
    ELSE LET dist == IF symmetric_aware /\ iter.symmetric
                     THEN Max(P.Hsml[other], iter.Hsml) ELSE iter.Hsml
             h2 == dist * dist
             dl == DistanceLoop(I, P.Pos[other], h2, BoxSize)
         IN  IF dl.r2 >= h2 THEN <<>>
             ELSE <<[other |-> other, r |-> sqrt(dl.r2), r2 |-> dl.r2, dist |-> dl.dist]>>

\* One candidate of the neighbour loop: the kernel call it leads to, as a
\* sequence of zero or one call.  symmetric_aware is TRUE in
\* treewalk_visit_ngbiter, whose search radius is max(P[other].Hsml,
\* iter->Hsml) for a symmetric query, and FALSE in
\* treewalk_visit_nolist_ngbiter, whose radius is always iter->Hsml.
AcceptCandidate(P, I, iter, other, symmetric_aware, BoxSize) ==
    IF P.IsGarbage[other] THEN <<>>
    ELSE IF ~(P.Type[other] \in iter.mask) THEN <<>>
    ELSE LET dist == IF symmetric_aware /\ iter.symmetric
                     THEN Max(P.Hsml[other], iter.Hsml) ELSE iter.Hsml
             h2 == dist * dist
             dl == DistanceLoop(I, P.Pos[other], h2, BoxSize)
         IN  IF dl.r2 > h2 THEN <<>>
             ELSE <<[other |-> other, r |-> sqrt(dl.r2), r2 |-> dl.r2, dist |-> dl.dist]>>

RECURSIVE CandidateLoop(_, _, _, _, _, _)
\* The calls the candidates of list (in order) lead to.
CandidateLoop(P, I, iter, list, symmetric_aware, BoxSize) ==
    IF list = <<>> THEN <<>>
    ELSE AcceptCandidate(P, I, iter, Head(list), symmetric_aware, BoxSize)
         \o CandidateLoop(P, I, iter, Tail(list), symmetric_aware, BoxSize)

\* What a visitor returns: rt, the thread's lv and table, the kernel calls
\* made (in order), the nodes visited and the endrun it ended in, if any.
VisitResult(st, rt, calls) ==
    [rt |-> rt, lv |-> st.lv, table |-> st.table, calls |-> calls,
     visited |-> st.visited, fatal |-> st.fatal]

RECURSIVE visit_ngbiter_from(_, _, _, _, _, _, _, _)
\* The NodeList loop of treewalk_visit_ngbiter from slot inode on.
visit_ngbiter_from(nodes, owner, P, I, iter, inode, st, calls) ==
    IF inode > NODELISTLENGTH \/ I.NodeList[inode] < 0
    THEN VisitResult(st, 0, calls)
    ELSE LET f == ngb_treefind_threads(nodes, owner, I, iter, I.NodeList[inode], st)
         IN  IF f.fatal # NoFatal THEN VisitResult(f, 0, calls)
             ELSE IF f.rt < 0 THEN VisitResult(f, f.rt, calls)
             ELSE visit_ngbiter_from(nodes, owner, P, I, iter, inode + 1, f,
                     calls \o CandidateLoop(P, I, iter, f.ngblist, TRUE,
                                            st.lv.tree.BoxSize))

\* treewalk_visit_ngbiter(I, O, lv).
treewalk_visit_ngbiter(nodes, owner, P, I, lv, table) ==
    LET iter == KernelInit(I)
        st   == WalkState(lv, table)
    IN  IF (lv.tree.mask \cap iter.mask) # iter.mask
        THEN VisitResult([st EXCEPT !.fatal = "tree mask"], 0, <<InitCall>>)
        ELSE IF iter.symmetric /\ ~lv.tree.hmax_computed_flag
        THEN VisitResult([st EXCEPT !.fatal = "symmetric without hmax"], 0, <<InitCall>>)
        ELSE visit_ngbiter_from(nodes, owner, P, I, iter, 1, st, <<InitCall>>)

RECURSIVE nolist_from(_, _, _, _, _, _, _, _, _)
\* The inner loop of treewalk_visit_nolist_ngbiter from node no on, for the
\* start node startnode: candidates are evaluated as their leaf is met.
\* Returns the walk state and the calls.
nolist_from(nodes, owner, P, I, iter, startnode, no, st, calls) ==
    IF no < 0 THEN [st |-> st, calls |-> calls]
    ELSE
    LET current == nodes[no]
        st1 == [st EXCEPT !.visited = Append(@, no)]
    IN  IF BranchDone(st.lv.mode, current, no, startnode)
        THEN [st |-> st, calls |-> calls]
        ELSE IF cull_node(I, iter, current, st.lv.tree.BoxSize) = 0
        THEN nolist_from(nodes, owner, P, I, iter, startnode, current.sibling, st1, calls)
        ELSE IF st.lv.mode = TREEWALK_TOPTREE
        THEN IF current.ChildType = PSEUDO_NODE_TYPE
             THEN LET e == treewalk_export_particle(st.lv, current.suns[1], st.table, TopLeaves(owner))
                      st2 == [st1 EXCEPT !.lv = e.lv, !.table = e.table]
                  IN  IF e.fatal # NoFatal
                      THEN [st |-> [st2 EXCEPT !.fatal = e.fatal], calls |-> calls]
                      ELSE IF e.rt = -1
                      THEN [st |-> [st2 EXCEPT !.rt = -1], calls |-> calls]
                      ELSE nolist_from(nodes, owner, P, I, iter, startnode,
                                       current.sibling, st2, calls)
             ELSE IF TopTreeLeaf(current)
             THEN nolist_from(nodes, owner, P, I, iter, startnode, current.sibling, st1, calls)
             ELSE nolist_from(nodes, owner, P, I, iter, startnode, current.suns[1], st1, calls)
        ELSE IF current.ChildType = PARTICLE_NODE_TYPE
             THEN nolist_from(nodes, owner, P, I, iter, startnode, current.sibling, st1,
                     calls \o CandidateLoop(P, I, iter,
                                 SubSeq(current.suns, 1, current.noccupied), FALSE,
                                 st.lv.tree.BoxSize))
             ELSE IF current.ChildType = PSEUDO_NODE_TYPE
             THEN IF st.lv.mode = TREEWALK_GHOSTS
                  THEN [st |-> [st1 EXCEPT !.fatal = "secondary found pseudo"],
                        calls |-> calls]
                  ELSE nolist_from(nodes, owner, P, I, iter, startnode,
                                   current.sibling, st1, calls)
             ELSE nolist_from(nodes, owner, P, I, iter, startnode, current.suns[1], st1, calls)

RECURSIVE visit_nolist_from(_, _, _, _, _, _, _, _)
\* The NodeList loop of treewalk_visit_nolist_ngbiter from slot inode on.
visit_nolist_from(nodes, owner, P, I, iter, inode, st, calls) ==
    IF inode > NODELISTLENGTH \/ I.NodeList[inode] < 0
    THEN VisitResult(st, 0, calls)
    ELSE LET w == nolist_from(nodes, owner, P, I, iter, I.NodeList[inode],
                              I.NodeList[inode], st, calls)
         IN  IF w.st.fatal # NoFatal THEN VisitResult(w.st, 0, w.calls)
             ELSE IF w.st.rt = -1 THEN VisitResult(w.st, -1, w.calls)
             ELSE visit_nolist_from(nodes, owner, P, I, iter, inode + 1, w.st, w.calls)

\* treewalk_visit_nolist_ngbiter(I, O, lv).
treewalk_visit_nolist_ngbiter(nodes, owner, P, I, lv, table) ==
    visit_nolist_from(nodes, owner, P, I, KernelInit(I), 1, WalkState(lv, table), <<InitCall>>)

\* tw->visit: one of the two visitors.
Visit(variant, nodes, owner, P, I, lv, table) ==
    IF variant = "ngbiter" THEN treewalk_visit_ngbiter(nodes, owner, P, I, lv, table)
    ELSE treewalk_visit_nolist_ngbiter(nodes, owner, P, I, lv, table)

\* treewalk_init_query: the position, the NodeList (the root and -1 when
\* none is given) and what fill copies from the particle.
treewalk_init_query(P, kernel, i, NodeList) ==
    [ID |-> i, Pos |-> P.Pos[i], Hsml |-> P.Hsml[i],
     mask |-> kernel.mask, symmetric |-> kernel.symmetric,
     NodeList |-> IF NodeList = <<>> THEN <<tree.firstnode, -1>> ELSE NodeList]

\* -------------------------------------------------- one call of a visitor
Tasks == 0 .. MaxTask - 1

\* The domain decomposition: each top-leaf is owned by exactly one task.
Owners == [TopLeafNodes -> Tasks]

\* The smoothing lengths the models run with.
HsmlProfiles ==
    { [i \in Particles |-> 2],
      [i \in Particles |-> 6],
      [i \in Particles |-> CASE i = 0 -> 2 [] i = 1 -> 3 [] i = 2 -> 6 [] i = 3 -> 7] }

\* lv->tw->tree as the visitors read it: the entry checks and the box.
TreeFlags ==
    [mask |-> tree.mask, hmax_computed_flag |-> tree.hmax_computed_flag,
     BoxSize |-> tree.BoxSize]

\* The trees of the walk model: the tree above, the same tree before
\* force_update_hmax has run, and a tree built for type 0 alone.
TreeProfiles ==
    { TreeFlags, [TreeFlags EXCEPT !.hmax_computed_flag = FALSE],
      [TreeFlags EXCEPT !.mask = {0}] }

\* The particle types the walk model runs with.
TypeProfiles == { [i \in Particles |-> 0], [i \in Particles |-> i % 2] }

\* The particle table P.
PTable(Hsml, Type, garbage) ==
    [Pos |-> Pos, Hsml |-> Hsml, Type |-> Type,
     IsGarbage |-> [i \in Particles |-> i \in garbage]]

LocalParticles(task, owner) == {i \in Particles : owner[LeafOf[i]] = task}

\* The NodeLists an export entry for task `task` can carry: one or two of
\* its top-leaves, in traversal order.
GhostNodeLists(task, owner) ==
    LET mine == {l \in TopLeafNodes : owner[l] = task}
    IN  {<<a, -1>> : a \in mine} \cup {ab \in mine \X mine : ab[1] < ab[2]}

\* The thread state a visitor is entered with: an empty slice roomy enough
\* for every export of one target.
VisitLv(mode, target) ==
    [mode |-> mode, target |-> target, Nexport |-> 0, NThisParticleExport |-> 0,
     BunchSize |-> Cardinality(TopLeafNodes), DataIndexOffset |-> 0,
     tree |-> TreeFlags]

VisitTable == [k \in 0 .. Cardinality(TopLeafNodes) - 1 |-> Junk]

\* A NodeList that names a top-leaf task `task` does not own: no export
\* entry of the engine carries one, a caller of the visitor can.
StrayNodeLists(task, owner) == {<<a, -1>> : a \in {l \in TopLeafNodes : owner[l] # task}}

\* The calls of a visitor: PRIMARY and TOPTREE walks of a local target from
\* the root (ev_primary, ev_toptree), GHOSTS walks of an imported query of
\* another task's particle (ev_secondary, target -1).  The visitor runs on
\* task 0 (the tasks differ by their number only), on a tree that holds
\* particles of the types of its mask.  A symmetric query is drawn where it
\* differs from the asymmetric one (smoothing lengths that differ), and
\* garbage with the tree the engine walks.
VisitInputs ==
    LET Common(modes, lists) ==
            [ variant : {"ngbiter", "nolist"},
              task : {0}, owner : Owners, tree : TreeProfiles,
              mode : modes, particle : Particles, NodeList : lists,
              symmetric : BOOLEAN, mask : {{0}, {0, 1}},
              Hsml : HsmlProfiles, Type : TypeProfiles,
              garbage : {g \in SUBSET Particles : Cardinality(g) <= MaxGarbage} ]
        Built(in) ==
            /\ \A i \in Particles : in.Type[i] \in in.tree.mask
            /\ in.symmetric => \E i, j \in Particles : in.Hsml[i] # in.Hsml[j]
            /\ in.tree # TreeFlags => in.garbage = {}
    IN  { in \in Common({TREEWALK_PRIMARY, TREEWALK_TOPTREE}, {<<>>}) :
            /\ Built(in)
            /\ in.particle \in LocalParticles(in.task, in.owner) }
        \cup
        { in \in Common({TREEWALK_GHOSTS},
                        {<<a, b>> : a \in TopLeafNodes, b \in TopLeafNodes \cup {-1}}) :
            /\ Built(in)
            /\ in.particle \notin LocalParticles(in.task, in.owner)
            /\ in.NodeList \in GhostNodeLists(in.task, in.owner)
                                \cup StrayNodeLists(in.task, in.owner) }

VInit ==
    /\ v_in \in VisitInputs
    /\ v_pc = "call"
    /\ v_out = <<>>
    /\ q_pc = "idle" /\ q_in = <<>> /\ q_scanned = {} /\ thrqueue = <<>>
    /\ WorkSet = <<>> /\ WorkSetSize = 0 /\ work_set_stolen_from_active = FALSE
    /\ r_in = <<>> /\ pc = <<>> /\ tw = <<>> /\ DataIndexTable = <<>>
    /\ currentIndex = <<>> /\ thr = <<>> /\ counts = <<>> /\ chanQ = <<>>
    /\ chanR = <<>> /\ redlog = <<>> /\ kcalls = <<>> /\ flaghist = <<>>
    /\ Ndone = <<>> /\ subiter = <<>>
    /\ x_pc = "idle" /\ x_in = <<>> /\ x_lv = <<>> /\ x_table = <<>> /\ x_calls = <<>>
    /\ b_pc = "idle" /\ b_in = <<>> /\ b_tw = <<>> /\ b_log = <<>>
    /\ s_pc = "idle" /\ s_in = <<>> /\ s_out = <<>>
    /\ h_pc = "idle" /\ h_in = <<>> /\ h_st = <<>> /\ h_log = <<>>
    /\ n_pc = "idle" /\ n_in = <<>> /\ n_out = <<>>
    /\ c_pc = "idle" /\ c_in = <<>> /\ c_cur = 0 /\ c_thr = <<>> /\ c_log = <<>>
    /\ e_pc = "idle" /\ e_in = <<>> /\ e_st = <<>> /\ e_log = <<>>
    /\ k_pc = "idle" /\ k_in = <<>> /\ k_out = <<>>

\* tw->visit(input, output, lv) for the arguments drawn.
VisitCall ==
    /\ v_pc = "call"
    /\ LET P == PTable(v_in.Hsml, v_in.Type, v_in.garbage)
           kernel == [mask |-> v_in.mask, symmetric |-> v_in.symmetric]
           I == treewalk_init_query(P, kernel, v_in.particle, v_in.NodeList)
           target == IF v_in.mode = TREEWALK_GHOSTS THEN -1 ELSE v_in.particle
           lv == [VisitLv(v_in.mode, target) EXCEPT !.tree = v_in.tree]
       IN  v_out' = Visit(v_in.variant, Nodes(v_in.task, v_in.owner, v_in.Hsml),
                          v_in.owner, P, I, lv, VisitTable)
    /\ v_pc' = "returned"
    /\ UNCHANGED <<v_in, notvvars>>

VNext == VisitCall

SpecVisit == VInit /\ [][VNext]_vars

\* ---------------------------------------------------- treewalk_build_queue
QParticles == 0 .. MaxPart - 1

\* Raw particle numbers 0 .. size-1, used when active_set is a null pointer.
RawParticles(size) == [k \in 1 .. size |-> k - 1]

\* The arguments of a call and the particle flags it reads. active_null and
\* haswork_null say that the pointer is null; a null active set stands for
\* the raw particle numbers, which must exist.
QInputs ==
    { in \in [ active       : SeqsUpTo(QParticles, MaxLen),
               active_null  : BOOLEAN,
               garbage      : SUBSET QParticles,   \* P[i].IsGarbage
               haswork      : SUBSET QParticles,   \* particles haswork accepts
               haswork_null : BOOLEAN,
               may_have_garbage : BOOLEAN,
               NThread      : 1 .. MaxThread ] :
        /\ in.active_null => (Len(in.active) <= MaxPart
                               /\ in.active = RawParticles(Len(in.active)))
        /\ in.haswork_null => in.haswork = {} }

QSize(in) == Len(in.active)

\* const int p_i = active_set ? active_set[i] : (int) i;   (i is 0-based)
p_i(in, i) == IF in.active_null THEN i ELSE in.active[i + 1]

\* The mutated filter: the garbage test is missing.
Survives_nogarbage(in, p) == in.haswork_null \/ p \in in.haswork

\* The filter of the scan loop: garbage is skipped, then !haswork.
Survives(in, p) ==
    /\ p \notin in.garbage
    /\ (in.haswork_null \/ p \in in.haswork)

\* The mutated chunk size of the static schedule: chunks of one iteration
\* are dealt round-robin, so a thread no longer scans a contiguous range.
schedsz_roundrobin(size, nthread) == 1

\* size_t schedsz = size/tw->NThread+1;
schedsz(size, nthread) == (size \div nthread) + 1

\* schedule(static, schedsz): chunk c of schedsz consecutive iterations is
\* executed by thread c mod NThread, each thread taking its iterations in
\* increasing order.
ThreadOf(in, i) == (i \div schedsz(QSize(in), in.NThread)) % in.NThread

\* The next iteration thread tid executes: its lowest unscanned one.
QPending(tid) ==
    {i \in 0 .. QSize(q_in) - 1 : ThreadOf(q_in, i) = tid /\ i \notin q_scanned}

\* if(!tw->haswork && !may_have_garbage): the active set is adopted verbatim.
Adopts(in) == in.haswork_null /\ ~in.may_have_garbage

\* The queue as the caller's array adopted verbatim (a null array stays null:
\* the walk then uses k itself, tw->WorkSet ? tw->WorkSet[k] : k).
AdoptedQueue(in) == in.active

QInit ==
    /\ q_in \in QInputs
    /\ q_pc = "start"
    /\ q_scanned = {}
    /\ thrqueue = [t \in 0 .. MaxThread |-> <<>>]
    /\ WorkSet = <<>>
    /\ WorkSetSize = 0
    /\ work_set_stolen_from_active = FALSE
    /\ v_pc = "idle" /\ v_in = <<>> /\ v_out = <<>>
    /\ r_in = <<>> /\ pc = <<>> /\ tw = <<>> /\ DataIndexTable = <<>>
    /\ currentIndex = <<>> /\ thr = <<>> /\ counts = <<>> /\ chanQ = <<>>
    /\ chanR = <<>> /\ redlog = <<>> /\ kcalls = <<>> /\ flaghist = <<>>
    /\ Ndone = <<>> /\ subiter = <<>>
    /\ x_pc = "idle" /\ x_in = <<>> /\ x_lv = <<>> /\ x_table = <<>> /\ x_calls = <<>>
    /\ b_pc = "idle" /\ b_in = <<>> /\ b_tw = <<>> /\ b_log = <<>>
    /\ s_pc = "idle" /\ s_in = <<>> /\ s_out = <<>>
    /\ h_pc = "idle" /\ h_in = <<>> /\ h_st = <<>> /\ h_log = <<>>
    /\ n_pc = "idle" /\ n_in = <<>> /\ n_out = <<>>
    /\ c_pc = "idle" /\ c_in = <<>> /\ c_cur = 0 /\ c_thr = <<>> /\ c_log = <<>>
    /\ e_pc = "idle" /\ e_in = <<>> /\ e_st = <<>> /\ e_log = <<>>
    /\ k_pc = "idle" /\ k_in = <<>> /\ k_out = <<>>

\* The early return of treewalk_build_queue.
BuildQueueAdopt ==
    /\ q_pc = "start"
    /\ Adopts(q_in)
    /\ WorkSetSize' = QSize(q_in)
    /\ WorkSet' = AdoptedQueue(q_in)
    /\ work_set_stolen_from_active' = TRUE
    /\ q_pc' = "done"
    /\ UNCHANGED <<q_in, q_scanned, thrqueue, notqvars>>

\* gadget_setup_thread_arrays: every thread's slice starts empty.
BuildQueueSetup ==
    /\ q_pc = "start"
    /\ ~Adopts(q_in)
    /\ thrqueue' = [t \in 0 .. MaxThread |-> <<>>]
    /\ work_set_stolen_from_active' = FALSE
    /\ q_pc' = "scan"
    /\ UNCHANGED <<q_in, q_scanned, WorkSet, WorkSetSize, notqvars>>

\* One iteration of the parallel loop, executed by thread tid.
BuildQueueScan(tid) ==
    /\ q_pc = "scan"
    /\ QPending(tid) # {}
    /\ LET i == CHOOSE j \in QPending(tid) : \A l \in QPending(tid) : j <= l
           p == p_i(q_in, i)
       IN  /\ q_scanned' = q_scanned \cup {i}
           /\ thrqueue' = IF Survives(q_in, p)
                          THEN [thrqueue EXCEPT ![tid] = Append(@, p)]
                          ELSE thrqueue
    /\ UNCHANGED <<q_pc, q_in, WorkSet, WorkSetSize, work_set_stolen_from_active, notqvars>>

RECURSIVE CompactFrom(_, _, _)
\* gadget_compact_thread_arrays: the threads' slices moved to the front of
\* the array one after the other, in thread order.
CompactFrom(q, t, n) == IF t >= n THEN <<>> ELSE q[t] \o CompactFrom(q, t + 1, n)

gadget_compact_thread_arrays(q, n) == CompactFrom(q, 0, n)

\* The merge step after the parallel loop has joined.
BuildQueueCompact ==
    /\ q_pc = "scan"
    /\ q_scanned = 0 .. QSize(q_in) - 1
    /\ WorkSet' = gadget_compact_thread_arrays(thrqueue, q_in.NThread)
    /\ WorkSetSize' = Len(WorkSet')
    /\ q_pc' = "done"
    /\ UNCHANGED <<q_in, q_scanned, thrqueue, work_set_stolen_from_active, notqvars>>

QNext ==
    \/ BuildQueueAdopt
    \/ BuildQueueSetup
    \/ \E tid \in 0 .. MaxThread - 1 : BuildQueueScan(tid)
    \/ BuildQueueCompact

SpecQueue == QInit /\ [][QNext]_vars

\* The list obtained by filtering the active set sequentially.
QSequential(in) ==
    FilterSeq(in.active, {p \in QParticles : Survives(in, p)})

\* ------------------------------------------------------------ treewalk_run
\* The run model: every task executes the retry loop of treewalk_run on its
\* own queue, over the tree above.  Tasks share no memory and local steps
\* of different tasks commute, so the local steps are taken in rank order;
\* the threads of a task interleave freely.
NTask == MaxTask

RECURSIVE SortedSeq(_)
\* The elements of S in ascending order.
SortedSeq(S) ==
    IF S = {} THEN <<>>
    ELSE LET m == CHOOSE x \in S : \A y \in S : x <= y
         IN  <<m>> \o SortedSeq(S \ {m})

\* The configurations of a run.  ev_begin refuses a BunchSize below 100;
\* the model keeps one entry per thread at least.
RunInputs ==
    { in \in [ owner : Owners, NThread : 1 .. MaxThread, BunchSize : 1 .. MaxBunch,
               Hsml : HsmlProfiles, symmetric : BOOLEAN ] :
        /\ in.BunchSize >= in.NThread
        /\ in.symmetric = (\E i, j \in Particles : in.Hsml[i] # in.Hsml[j]) }

RunP(in) == PTable(in.Hsml, [i \in Particles |-> 0], {})
RunKernel(in) == [mask |-> {0}, symmetric |-> in.symmetric]

\* The mutated slices: every thread is given the capacity of the table.
ev_init_thread_whole(in, thread_id, mode) ==
    [ mode |-> mode, target |-> -1, Nexport |-> 0, NThisParticleExport |-> 0,
      tree |-> TreeFlags,
      DataIndexOffset |-> thread_id * (in.BunchSize \div in.NThread),
      BunchSize |-> in.BunchSize ]

\* ev_init_thread: the slice of DataIndexTable of thread thread_id.
ev_init_thread(in, thread_id, mode) ==
    LET localbunch == in.BunchSize \div in.NThread
    IN  [ mode |-> mode, target |-> -1, Nexport |-> 0, NThisParticleExport |-> 0,
          tree |-> TreeFlags,
          DataIndexOffset |-> thread_id * localbunch,
          BunchSize |-> IF localbunch > in.BunchSize - thread_id * localbunch
                        THEN in.BunchSize - thread_id * localbunch
                        ELSE localbunch ]

\* The chunk size ev_toptree and ev_primary start with.
ChunkSize(size, nthread) == Min(100, Max(1, size \div (4 * nthread)))

\* The locals of a thread outside the parallel region.
IdleThread ==
    [ at |-> "idle", lv |-> <<>>, lastSucceeded |-> 0, chnk |-> 0, chnksz |-> 0,
      end |-> 0, k |-> 0, BufferFullFlag |-> 0 ]

ThreadIds == 0 .. r_in.NThread - 1

\* ev_export_import_counts starts from zeroed counts.
ZeroCounts ==
    [ Export_count |-> [q \in Tasks |-> 0], Import_count |-> [q \in Tasks |-> 0],
      Export_offset |-> [q \in Tasks |-> 0], Import_offset |-> [q \in Tasks |-> 0],
      Nimport |-> 0, Nexport |-> 0 ]

\* The state when the retry loop is entered: ev_begin adopted the active
\* set (the local particles, ascending), WorkSetStart and Nexportfull are 0.
RInit ==
    /\ r_in \in RunInputs
    /\ pc = [p \in Tasks |-> "ev_toptree"]
    /\ tw = [p \in Tasks |->
               LET ws == SortedSeq(LocalParticles(p, r_in.owner))
               IN  [ WorkSet |-> ws, WorkSetSize |-> Len(ws), WorkSetStart |-> 0,
                     BufferFullFlag |-> 0, Nexportfull |-> 0, NExportTargets |-> 0,
                     Nexport_thread |-> [t \in 0 .. r_in.NThread - 1 |-> 0],
                     Nexport_threadoffset |-> [t \in 0 .. r_in.NThread - 1 |-> 0],
                     NTask |-> NTask, NThread |-> r_in.NThread,
                     BunchSize |-> r_in.BunchSize ]]
    /\ DataIndexTable = [p \in Tasks |-> [k \in 0 .. r_in.BunchSize - 1 |-> Junk]]
    /\ currentIndex = [p \in Tasks |-> 0]
    /\ thr = [p \in Tasks |-> [t \in 0 .. r_in.NThread - 1 |-> IdleThread]]
    /\ counts = [p \in Tasks |-> ZeroCounts]
    /\ chanQ = [p \in Tasks |-> [q \in Tasks |-> <<>>]]
    /\ chanR = [p \in Tasks |-> [q \in Tasks |-> <<>>]]
    /\ Ndone = [p \in Tasks |-> 0]
    /\ subiter = [p \in Tasks |-> 0]
    /\ redlog = [p \in Tasks |-> <<>>]
    /\ kcalls = [p \in Tasks |-> <<>>]
    /\ flaghist = <<>>
    /\ q_pc = "idle" /\ q_in = <<>> /\ q_scanned = {} /\ thrqueue = <<>>
    /\ WorkSet = <<>> /\ WorkSetSize = 0 /\ work_set_stolen_from_active = FALSE
    /\ v_pc = "idle" /\ v_in = <<>> /\ v_out = <<>>
    /\ x_pc = "idle" /\ x_in = <<>> /\ x_lv = <<>> /\ x_table = <<>> /\ x_calls = <<>>
    /\ b_pc = "idle" /\ b_in = <<>> /\ b_tw = <<>> /\ b_log = <<>>
    /\ s_pc = "idle" /\ s_in = <<>> /\ s_out = <<>>
    /\ h_pc = "idle" /\ h_in = <<>> /\ h_st = <<>> /\ h_log = <<>>
    /\ n_pc = "idle" /\ n_in = <<>> /\ n_out = <<>>
    /\ c_pc = "idle" /\ c_in = <<>> /\ c_cur = 0 /\ c_thr = <<>> /\ c_log = <<>>
    /\ e_pc = "idle" /\ e_in = <<>> /\ e_st = <<>> /\ e_log = <<>>
    /\ k_pc = "idle" /\ k_in = <<>> /\ k_out = <<>>

\* wait_commbuffer(&imports) of task p returns: every query announced by
\* the counts has been sent.
ImportsArrived(p) ==
    \A q \in Tasks : Len(chanQ[q][p]) = counts[p].Import_count[q]

\* wait_commbuffer(&res_exports) of task p returns.
ResultsArrived(p) ==
    \A q \in Tasks : Len(chanR[q][p]) = counts[p].Export_count[q]

\* Task q can take a step on its own.
LocalEnabled(q) ==
    \/ pc[q] \in {"ev_toptree", "threads", "send", "ev_primary", "looptest"}
    \/ pc[q] = "ev_secondary" /\ ImportsArrived(q)
    \/ pc[q] = "reduce" /\ ResultsArrived(q)

\* Rank order of the local steps.
Turn(p) == \A q \in Tasks : q < p => ~LocalEnabled(q)

\* endrun: MPI_Abort ends every task.
Endrun == [q \in Tasks |-> "endrun"]

\* The kernel calls on a neighbour among calls, as task p logs them.
NeighbourCalls(ID, mode, calls) ==
    LET real == FilterSeq(calls, {c \in {calls[j] : j \in 1 .. Len(calls)} : c.other >= 0})
    IN  [j \in 1 .. Len(real) |-> [ID |-> ID, other |-> real[j].other, mode |-> mode]]

\* ev_toptree up to the parallel region: the flag is cleared, the shared
\* chunk counter starts at WorkSetStart, and every thread starts with an
\* empty slice and its own lastSucceeded = WorkSetStart - 1.
ToptreeBegin(p) ==
    /\ pc[p] = "ev_toptree" /\ Turn(p)
    /\ tw' = [tw EXCEPT ![p].BufferFullFlag = 0]
    /\ currentIndex' = [currentIndex EXCEPT ![p] = tw[p].WorkSetStart]
    /\ thr' = [thr EXCEPT ![p] = [t \in ThreadIds |->
                 [ at |-> "claim", lv |-> ev_init_thread(r_in, t, TREEWALK_TOPTREE),
                   lastSucceeded |-> tw[p].WorkSetStart - 1, chnk |-> 0,
                   chnksz |-> ChunkSize(tw[p].WorkSetSize, tw[p].NThread),
                   end |-> 0, k |-> 0, BufferFullFlag |-> 0 ]]]
    /\ pc' = [pc EXCEPT ![p] = "threads"]
    /\ UNCHANGED <<r_in, DataIndexTable, counts, chanQ, chanR, Ndone, subiter,
                   redlog, kcalls, flaghist, notrvars>>

\* The mutated chunk counter: it wraps at the end of the queue.
atomic_fetch_and_add_wrap(ptr, value, size) ==
    [old |-> ptr, new |-> IF size = 0 THEN ptr + value ELSE (ptr + value) % size]

\* atomic_fetch_and_add(&currentIndex, chnksz).
atomic_fetch_and_add(ptr, value, size) == [old |-> ptr, new |-> ptr + value]

\* A thread takes the next chunk: the head of the do loop up to the for.
\* The threads meet at the chunk counter only: a walk and the code after
\* the for loop touch the thread's own locals and its own slice of
\* DataIndexTable, so they are run before the next chunk is handed out,
\* and every order in which the threads take the chunks is explored.
ToptreeClaim(p, tid) ==
    /\ pc[p] = "threads" /\ Turn(p)
    /\ thr[p][tid].at = "claim"
    /\ \A t2 \in ThreadIds : thr[p][t2].at \notin {"walk", "after"}
    /\ LET t == thr[p][tid]
           f == atomic_fetch_and_add(currentIndex[p], t.chnksz, tw[p].WorkSetSize)
           chnk == f.old
           end == Min(chnk + t.chnksz, tw[p].WorkSetSize)
           chnksz == IF tw[p].WorkSetSize < end + t.chnksz * tw[p].NThread /\ t.chnksz >= 2
                     THEN t.chnksz \div 2 ELSE t.chnksz
       IN  /\ currentIndex' = [currentIndex EXCEPT ![p] = f.new]
           /\ thr' = [thr EXCEPT ![p][tid] =
                        [t EXCEPT !.chnk = chnk, !.end = end, !.chnksz = chnksz, !.k = chnk,
                                  !.at = IF chnk < end THEN "walk" ELSE "after"]]
    /\ UNCHANGED <<r_in, pc, tw, DataIndexTable, counts, chanQ, chanR, Ndone, subiter,
                   redlog, kcalls, flaghist, notrvars>>

\* The rest of an iteration of the for loop once the visit v of particle i
\* has returned: break when the slice was full, else lastSucceeded = k.
ToptreeVisited(p, tid, t, i, v) ==
    /\ DataIndexTable' = [DataIndexTable EXCEPT ![p] = v.table]
    /\ kcalls' = [kcalls EXCEPT ![p] = @ \o NeighbourCalls(i, TREEWALK_TOPTREE, v.calls)]
    /\ IF v.fatal # NoFatal
       THEN /\ pc' = Endrun
            /\ thr' = [thr EXCEPT ![p][tid].lv = v.lv]
       ELSE /\ pc' = pc
            /\ thr' = [thr EXCEPT ![p][tid] =
                 IF v.rt < 0
                 THEN [t EXCEPT !.lv = v.lv, !.at = "after"]
                 ELSE [t EXCEPT !.lv = v.lv, !.lastSucceeded = t.k, !.k = t.k + 1,
                                !.at = IF t.k + 1 < t.end THEN "walk" ELSE "after"]]

\* One iteration of the for loop: the toptree walk of queue position k.
ToptreeWalk(p, tid) ==
    /\ pc[p] = "threads" /\ Turn(p)
    /\ thr[p][tid].at = "walk"
    /\ LET t == thr[p][tid]
           i == tw[p].WorkSet[t.k + 1]
           input == treewalk_init_query(RunP(r_in), RunKernel(r_in), i, <<>>)
           lv == [t.lv EXCEPT !.target = i, !.NThisParticleExport = 0]
       IN  ToptreeVisited(p, tid, t, i,
               Visit("ngbiter", Nodes(p, r_in.owner, r_in.Hsml), r_in.owner,
                     RunP(r_in), input, lv, DataIndexTable[p]))
    /\ UNCHANGED <<r_in, tw, currentIndex, counts, chanQ, chanR, Ndone, subiter,
                   redlog, flaghist, notrvars>>

\* What reading tw->WorkSet[k] gives: the queue element, or, one past the
\* end of the array, whatever lies there.
WorkSetRead(ws, k) == IF k < Len(ws) THEN {ws[k + 1]} ELSE {-1, tree.NumParticles}

\* After the for loop: when the slice is full the flag is raised, the
\* exports of the last particle walked are taken off the slice and the
\* thread leaves; otherwise it goes for the next chunk while chnk is in
\* the queue.
ToptreeAfter(p, tid) ==
    /\ pc[p] = "threads" /\ Turn(p)
    /\ thr[p][tid].at = "after"
    /\ LET t == thr[p][tid]
       IN  IF t.lv.Nexport >= t.lv.BunchSize
           THEN IF t.lastSucceeded < t.end
                THEN \E lastreal \in WorkSetRead(tw[p].WorkSet, t.k) :
                       LET Nexport == t.lv.Nexport - t.lv.NThisParticleExport
                       IN  /\ thr' = [thr EXCEPT ![p][tid] =
                                        [t EXCEPT !.BufferFullFlag = 1, !.lv.Nexport = Nexport,
                                                  !.at = "done"]]
                           /\ pc' = IF /\ t.lv.NThisParticleExport > 0
                                       /\ DataIndexTable[p][t.lv.DataIndexOffset + Nexport].Index
                                              > lastreal
                                    THEN Endrun ELSE pc
                ELSE /\ thr' = [thr EXCEPT ![p][tid] =
                                  [t EXCEPT !.BufferFullFlag = 1, !.at = "done"]]
                     /\ pc' = pc
           ELSE /\ thr' = [thr EXCEPT ![p][tid].at =
                              IF t.chnk < tw[p].WorkSetSize THEN "claim" ELSE "done"]
                /\ pc' = pc
    /\ UNCHANGED <<r_in, tw, DataIndexTable, currentIndex, counts, chanQ, chanR, Ndone,
                   subiter, redlog, kcalls, flaghist, notrvars>>

\* The mutated reduction: the minimum over the threads' lastSucceeded.
reduction_min_lastSucceeded_threads(size, threads) ==
    LET vals == {threads[t].lastSucceeded : t \in DOMAIN threads} \cup {size}
    IN  CHOOSE x \in vals : \A y \in vals : x <= y

\* reduction(min: lastSucceeded) over the parallel region of ev_toptree.
\* The region declares its own lastSucceeded, which hides the reduction
\* variable: no thread assigns its private copy of the latter, so the
\* minimum is taken over the initial value WorkSetSize alone.
reduction_min_lastSucceeded(size, threads) == size

RECURSIVE SumFlags(_, _)
\* reduction(+: BufferFullFlag).
SumFlags(threads, n) ==
    IF n = 0 THEN 0 ELSE threads[n - 1].BufferFullFlag + SumFlags(threads, n - 1)

\* The end of the parallel region: every thread stores its Nexport and
\* offset, then WorkSetStart and BufferFullFlag are set from the reductions.
ToptreeJoin(p) ==
    /\ pc[p] = "threads" /\ Turn(p)
    /\ \A t \in ThreadIds : thr[p][t].at = "done"
    /\ tw' = [tw EXCEPT
                ![p].Nexport_thread = [t \in ThreadIds |-> thr[p][t].lv.Nexport],
                ![p].Nexport_threadoffset = [t \in ThreadIds |-> thr[p][t].lv.DataIndexOffset],
                ![p].WorkSetStart =
                    reduction_min_lastSucceeded(tw[p].WorkSetSize, thr[p]) + 1,
                ![p].BufferFullFlag = SumFlags(thr[p], tw[p].NThread)]
    /\ thr' = [thr EXCEPT ![p] = [t \in ThreadIds |-> IdleThread]]
    /\ pc' = [pc EXCEPT ![p] = "counts"]
    /\ UNCHANGED <<r_in, DataIndexTable, currentIndex, counts, chanQ, chanR, Ndone,
                   subiter, redlog, kcalls, flaghist, notrvars>>

RECURSIVE ExportScanFrom(_, _, _)
\* The entries of DataIndexTable the threads retained, as the loops over
\* i < NThread, k < Nexport_thread[i] meet them: ditind = k + offset[i].
ExportScanFrom(t, i, n) ==
    IF i >= n THEN <<>>
    ELSE [k \in 1 .. t.Nexport_thread[i] |-> k - 1 + t.Nexport_threadoffset[i]]
         \o ExportScanFrom(t, i + 1, n)

ExportScan(p) == ExportScanFrom(tw[p], 0, tw[p].NThread)

\* counts.Export_count as task p computes it before the Alltoall.
ExportCountOf(p) ==
    LET scan == ExportScan(p)
    IN  [q \in Tasks |->
            Cardinality({j \in 1 .. Len(scan) : DataIndexTable[p][scan[j]].Task = q})]

RECURSIVE SumTo(_, _)
\* f[0] + ... + f[n-1].
SumTo(f, n) == IF n = 0 THEN 0 ELSE f[n - 1] + SumTo(f, n - 1)

\* Export_offset / Import_offset: running sums of the counts.
Offsets(count) == [q \in Tasks |-> SumTo(count, q)]

\* Export_count[i] read with i = tw->NThread, the value the first loop of
\* ev_export_import_counts leaves in i: the four arrays are one allocation
\* (Export_count, Export_offset, Import_count, Import_offset), the offsets
\* still zero when it is read.
CountsArrayRead(ec, ic, i) ==
    IF i < NTask THEN ec[i]
    ELSE IF i < 2 * NTask THEN 0
    ELSE IF i < 3 * NTask THEN ic[i - 2 * NTask]
    ELSE 0

\* The mutated ev_ndone: the local flag alone, without the Allreduce.
ev_ndone_local(p, flags) == IF flags[p] = 0 THEN 1 ELSE 0

\* ev_ndone: the number of tasks whose BufferFullFlag is 0 (MPI_Allreduce).
ev_ndone(p, flags) == Cardinality({q \in Tasks : flags[q] = 0})

\* ev_export_import_counts and ev_ndone: the two collectives every task
\* enters after its toptree pass.
ExchangeCounts ==
    /\ \A p \in Tasks : pc[p] = "counts"
    /\ counts' = [p \in Tasks |->
                    LET ec == ExportCountOf(p)
                        ic == [q \in Tasks |-> ExportCountOf(q)[p]]
                    IN  [ Export_count |-> ec, Import_count |-> ic,
                          Export_offset |-> Offsets(ec), Import_offset |-> Offsets(ic),
                          Nimport |-> SumTo(ic, NTask),
                          Nexport |-> SumTo(tw[p].Nexport_thread, tw[p].NThread) ]]
    /\ tw' = [p \in Tasks |->
                LET ec == ExportCountOf(p)
                    ic == [q \in Tasks |-> ExportCountOf(q)[p]]
                IN  [tw[p] EXCEPT !.NExportTargets =
                        (IF CountsArrayRead(ec, ic, tw[p].NThread) > 0 THEN 1 ELSE 0)
                        + Cardinality({q \in Tasks : q >= 1 /\ ec[q] > 0})]]
    /\ Ndone' = [p \in Tasks |-> ev_ndone(p, [q \in Tasks |-> tw[q].BufferFullFlag])]
    /\ flaghist' = Append(flaghist, {q \in Tasks : tw[q].BufferFullFlag # 0})
    /\ pc' = [p \in Tasks |-> "send"]
    /\ UNCHANGED <<r_in, DataIndexTable, currentIndex, thr, chanQ, chanR, subiter,
                   redlog, kcalls, notrvars>>

\* bufpos of the j-th entry scanned: real_send_count[task] (the entries for
\* the same task scanned before it) + Export_offset[task].
BufPos(p, scan, j) ==
    LET task == DataIndexTable[p][scan[j]].Task
    IN  Cardinality({l \in 1 .. j - 1 : DataIndexTable[p][scan[l]].Task = task})
        + counts[p].Export_offset[task]

\* exports->databuf as ev_send_recv_export_import fills it.
ExportQueries(p) ==
    LET scan == ExportScan(p)
    IN  [b \in 0 .. counts[p].Nexport - 1 |->
            LET j == CHOOSE l \in 1 .. Len(scan) : BufPos(p, scan, l) = b
                e == DataIndexTable[p][scan[j]]
            IN  treewalk_init_query(RunP(r_in), RunKernel(r_in), e.Index, e.NodeList)]

\* MPI_iAlltoAll_sparse in send mode: count[q] elements from offset[q] of
\* the buffer go to task q.
SparseSend(buf, count, offset) ==
    [q \in Tasks |-> [n \in 1 .. count[q] |-> buf[offset[q] + n - 1]]]

\* ev_send_recv_export_import: the queries are built and sent.
SendQueries(p) ==
    /\ pc[p] = "send" /\ Turn(p)
    /\ chanQ' = [chanQ EXCEPT ![p] =
                    SparseSend(ExportQueries(p), counts[p].Export_count,
                               counts[p].Export_offset)]
    /\ pc' = [pc EXCEPT ![p] = "ev_primary"]
    /\ UNCHANGED <<r_in, tw, DataIndexTable, currentIndex, thr, counts, chanR, Ndone,
                   subiter, redlog, kcalls, flaghist, notrvars>>

\* The neighbours a result accumulated from the kernel calls of a walk.
Neighbours(calls) ==
    LET real == FilterSeq(calls, {c \in {calls[j] : j \in 1 .. Len(calls)} : c.other >= 0})
    IN  [j \in 1 .. Len(real) |-> real[j].other]

RECURSIVE Concat(_)
\* The sequences of ss one after the other.
Concat(ss) == IF ss = <<>> THEN <<>> ELSE Head(ss) \o Concat(Tail(ss))

\* The walks of ev_primary over the whole queue, in queue order.
PrimaryWalks(p) ==
    [k \in 1 .. tw[p].WorkSetSize |->
        LET i == tw[p].WorkSet[k]
            input == treewalk_init_query(RunP(r_in), RunKernel(r_in), i, <<>>)
            lv == [ev_init_thread(r_in, 0, TREEWALK_PRIMARY) EXCEPT !.target = i]
        IN  [i |-> i, input |-> input,
             v |-> Visit("ngbiter", Nodes(p, r_in.owner, r_in.Hsml), r_in.owner,
                         RunP(r_in), input, lv, DataIndexTable[p])]]

\* The reductions of ev_primary for the walks w, and the kernel calls made.
PrimaryReduced(p, w) ==
    /\ redlog' = [redlog EXCEPT ![p] = @ \o
          [k \in 1 .. Len(w) |->
              [place |-> w[k].i, mode |-> TREEWALK_PRIMARY, Task |-> p,
               NodeList |-> w[k].input.NodeList, ID |-> w[k].input.ID,
               ngb |-> Neighbours(w[k].v.calls)]]]
    /\ kcalls' = [kcalls EXCEPT ![p] = @ \o
          Concat([k \in 1 .. Len(w) |->
              NeighbourCalls(w[k].i, TREEWALK_PRIMARY, w[k].v.calls)])]
    /\ pc' = IF \E k \in 1 .. Len(w) : w[k].v.fatal # NoFatal
             THEN Endrun ELSE [pc EXCEPT ![p] = "ev_secondary"]

\* if(tw->Nexportfull == 0) ev_primary(tw): every target of the queue is
\* walked locally and its result reduced in PRIMARY mode.
EvPrimary(p) ==
    /\ pc[p] = "ev_primary" /\ Turn(p)
    /\ IF tw[p].Nexportfull = 0
       THEN PrimaryReduced(p, PrimaryWalks(p))
       ELSE /\ pc' = [pc EXCEPT ![p] = "ev_secondary"]
            /\ UNCHANGED <<redlog, kcalls>>
    /\ UNCHANGED <<r_in, tw, DataIndexTable, currentIndex, thr, counts, chanQ, chanR,
                   Ndone, subiter, flaghist, notrvars>>

\* imports.databuf: the queries received, by Import_offset (rank order).
ImportList(p) == Concat([q \in 1 .. NTask |-> chanQ[q - 1][p]])

\* The walks of ev_secondary over the import list.
SecondaryWalks(p) ==
    LET importlist == ImportList(p)
    IN  [j \in 1 .. Len(importlist) |->
            LET input == importlist[j]
                lv == [ev_init_thread(r_in, 0, TREEWALK_GHOSTS) EXCEPT !.target = -1]
            IN  [input |-> input,
                 v |-> Visit("ngbiter", Nodes(p, r_in.owner, r_in.Hsml), r_in.owner,
                             RunP(r_in), input, lv, DataIndexTable[p])]]

\* The mutated result buffer: result j is written for query n + 1 - j.
DataResult_reversed(w) ==
    [j \in 1 .. Len(w) |->
        [ID |-> w[Len(w) + 1 - j].input.ID, ngb |-> Neighbours(w[Len(w) + 1 - j].v.calls)]]

\* ImportResult: the results of the walks w of ev_secondary.
DataResult(w) ==
    [j \in 1 .. Len(w) |-> [ID |-> w[j].input.ID, ngb |-> Neighbours(w[j].v.calls)]]

\* ev_recv_send_result for the walks w: the results go back to the tasks
\* the queries came from, by Import_offset and Import_count.
SecondaryReturned(p, w) ==
    /\ kcalls' = [kcalls EXCEPT ![p] = @ \o
          Concat([j \in 1 .. Len(w) |->
              NeighbourCalls(w[j].input.ID, TREEWALK_GHOSTS, w[j].v.calls)])]
    /\ chanR' = [chanR EXCEPT ![p] =
          [q \in Tasks |-> SubSeq(DataResult(w), counts[p].Import_offset[q] + 1,
                                  counts[p].Import_offset[q] + counts[p].Import_count[q])]]
    /\ pc' = IF \E j \in 1 .. Len(w) : w[j].v.fatal # NoFatal
             THEN Endrun ELSE [pc EXCEPT ![p] = "reduce"]

\* wait_commbuffer(&imports), ev_secondary, then ev_recv_send_result: the
\* imported queries are walked in GHOSTS mode and the results sent back to
\* the tasks the queries came from.  (wait_commbuffer(&exports) in between
\* returns once this task's own queries are buffered or taken.)
EvSecondary(p) ==
    /\ pc[p] = "ev_secondary" /\ Turn(p)
    /\ ImportsArrived(p)
    /\ SecondaryReturned(p, SecondaryWalks(p))
    /\ chanQ' = [a \in Tasks |-> [b \in Tasks |-> IF b = p THEN <<>> ELSE chanQ[a][b]]]
    /\ UNCHANGED <<r_in, tw, DataIndexTable, currentIndex, thr, counts, Ndone, subiter,
                   redlog, flaghist, notrvars>>

\* res_exports.databuf: the results received, placed by Export_offset.
ResultBuffer(p) ==
    [b \in 0 .. counts[p].Nexport - 1 |->
        LET q == CHOOSE r \in Tasks :
                    /\ counts[p].Export_offset[r] <= b
                    /\ b < counts[p].Export_offset[r] + counts[p].Export_count[r]
        IN  chanR[q][p][b - counts[p].Export_offset[q] + 1]]

\* wait_commbuffer(&res_exports) and ev_reduce_export_result: the entries
\* are scanned as when the queries were built, and the result at the same
\* bufpos is reduced into the entry's particle in GHOSTS mode.
ReduceExportResult(p) ==
    /\ pc[p] = "reduce" /\ Turn(p)
    /\ ResultsArrived(p)
    /\ LET scan == ExportScan(p)
           buf == ResultBuffer(p)
       IN  redlog' = [redlog EXCEPT ![p] = @ \o
              [j \in 1 .. Len(scan) |->
                  LET e == DataIndexTable[p][scan[j]]
                      output == buf[BufPos(p, scan, j)]
                  IN  [place |-> e.Index, mode |-> TREEWALK_GHOSTS, Task |-> e.Task,
                       NodeList |-> e.NodeList, ID |-> output.ID, ngb |-> output.ngb]]]
    /\ chanR' = [a \in Tasks |-> [b \in Tasks |-> IF b = p THEN <<>> ELSE chanR[a][b]]]
    /\ pc' = [pc EXCEPT ![p] = "looptest"]
    /\ UNCHANGED <<r_in, tw, DataIndexTable, currentIndex, thr, counts, chanQ, Ndone,
                   subiter, kcalls, flaghist, notrvars>>

\* while(Ndone < tw->NTask): the task starts another sub-iteration or
\* leaves the loop.
LoopTest(p) ==
    /\ pc[p] = "looptest" /\ Turn(p)
    /\ subiter[p] + 1 < MaxIter \/ Ndone[p] >= tw[p].NTask
    /\ subiter' = [subiter EXCEPT ![p] = @ + 1]
    /\ pc' = [pc EXCEPT ![p] = IF Ndone[p] < tw[p].NTask THEN "ev_toptree" ELSE "done"]
    /\ UNCHANGED <<r_in, tw, DataIndexTable, currentIndex, thr, counts, chanQ, chanR,
                   Ndone, redlog, kcalls, flaghist, notrvars>>

Next ==
    \/ \E p \in Tasks : ToptreeBegin(p)
    \/ \E p \in Tasks, tid \in 0 .. MaxThread - 1 :
          tid < r_in.NThread /\ ToptreeClaim(p, tid)
    \/ \E p \in Tasks, tid \in 0 .. MaxThread - 1 :
          tid < r_in.NThread /\ ToptreeWalk(p, tid)
    \/ \E p \in Tasks, tid \in 0 .. MaxThread - 1 :
          tid < r_in.NThread /\ ToptreeAfter(p, tid)
    \/ \E p \in Tasks : ToptreeJoin(p)
    \/ ExchangeCounts
    \/ \E p \in Tasks : SendQueries(p)
    \/ \E p \in Tasks : EvPrimary(p)
    \/ \E p \in Tasks : EvSecondary(p)
    \/ \E p \in Tasks : ReduceExportResult(p)
    \/ \E p \in Tasks : LoopTest(p)

Spec == RInit /\ [][Next]_vars

\* ------------------------------------------- treewalk_export_particle alone
\* The export model: one thread of ev_toptree (or another caller of the
\* public treewalk_export_particle) walks the targets of its chunks one
\* after the other; each walk meets pseudo-nodes and exports them.  The
\* pseudo-nodes are met in the order of the tree, the n-th one met is
\* pseudo-particle lastnode + n, and which task owns it is drawn with the
\* tree.  The remote tasks are numbered in the order the pass first meets
\* them (treewalk_export_particle compares tasks for equality only).
XLeaves == 0 .. MaxLeaf - 1

XOwners ==
    { o \in [XLeaves -> Tasks \ {0}] :
        /\ o[0] = 1
        /\ \A j \in XLeaves : \A q \in Tasks :
              (0 < q /\ q < o[j]) => \E l \in 0 .. j - 1 : o[l] = q }

\* tree->TopLeaves of the export model: top-leaf j is node firstnode + j of
\* task owner[j].
XTopLeaves(owner) ==
    [j \in XLeaves |-> [Task |-> owner[j], treenode |-> tree.firstnode + j]]

XInputs ==
    [ owner : XOwners, BunchSize : 1 .. MaxBunch,
      mode : {TREEWALK_TOPTREE, TREEWALK_PRIMARY, TREEWALK_GHOSTS} ]

XInit ==
    /\ x_in \in XInputs
    /\ x_pc = "between"
    /\ x_lv = ev_init_thread([BunchSize |-> x_in.BunchSize, NThread |-> 1], 0, x_in.mode)
    /\ x_table = [k \in 0 .. x_in.BunchSize - 1 |-> Junk]
    /\ x_calls = <<>>
    /\ b_pc = "idle" /\ b_in = <<>> /\ b_tw = <<>> /\ b_log = <<>>
    /\ q_pc = "idle" /\ q_in = <<>> /\ q_scanned = {} /\ thrqueue = <<>>
    /\ WorkSet = <<>> /\ WorkSetSize = 0 /\ work_set_stolen_from_active = FALSE
    /\ v_pc = "idle" /\ v_in = <<>> /\ v_out = <<>>
    /\ r_in = <<>> /\ pc = <<>> /\ tw = <<>> /\ DataIndexTable = <<>>
    /\ currentIndex = <<>> /\ thr = <<>> /\ counts = <<>> /\ chanQ = <<>>
    /\ chanR = <<>> /\ redlog = <<>> /\ kcalls = <<>> /\ flaghist = <<>>
    /\ Ndone = <<>> /\ subiter = <<>>
    /\ s_pc = "idle" /\ s_in = <<>> /\ s_out = <<>>
    /\ h_pc = "idle" /\ h_in = <<>> /\ h_st = <<>> /\ h_log = <<>>
    /\ n_pc = "idle" /\ n_in = <<>> /\ n_out = <<>>
    /\ c_pc = "idle" /\ c_in = <<>> /\ c_cur = 0 /\ c_thr = <<>> /\ c_log = <<>>
    /\ e_pc = "idle" /\ e_in = <<>> /\ e_st = <<>> /\ e_log = <<>>
    /\ k_pc = "idle" /\ k_in = <<>> /\ k_out = <<>>

\* The for loop of ev_toptree up to tw->visit: the next target of the
\* queue, lv->target = i and lv->NThisParticleExport = 0.
XBeginTarget ==
    /\ x_pc = "between"
    /\ x_lv.target + 1 < tree.NumParticles
    /\ x_lv' = [x_lv EXCEPT !.target = @ + 1, !.NThisParticleExport = 0]
    /\ x_pc' = "walk"
    /\ UNCHANGED <<x_in, x_table, x_calls, notxvars>>

\* The walk meets the next pseudo-node and calls treewalk_export_particle:
\* an endrun ends the job, -1 ends the walk and the pass of the thread.
XExport ==
    /\ x_pc = "walk"
    /\ Len(x_calls) < MaxLeaf
    /\ LET no == tree.lastnode + Len(x_calls)
           e == treewalk_export_particle(x_lv, no, x_table, XTopLeaves(x_in.owner))
       IN  /\ x_lv' = e.lv
           /\ x_table' = e.table
           /\ x_calls' = Append(x_calls,
                 [target |-> x_lv.target, no |-> no, rt |-> e.rt, fatal |-> e.fatal,
                  appended |-> e.lv.Nexport # x_lv.Nexport])
           /\ x_pc' = IF e.fatal # NoFatal THEN "endrun"
                      ELSE IF e.rt = -1 THEN "full" ELSE "walk"
    /\ UNCHANGED <<x_in, notxvars>>

\* The walk of the target returns 0: the for loop goes on.
XEndTarget ==
    /\ x_pc = "walk"
    /\ x_pc' = "between"
    /\ UNCHANGED <<x_in, x_lv, x_table, x_calls, notxvars>>

XNext == XBeginTarget \/ XExport \/ XEndTarget

SpecExport == XInit /\ [][XNext]_vars

\* ------------------------------------------ treewalk_run up to the retry loop
\* sizeof(struct data_index): Task, Index and NodeList[2], four ints.
sizeof_data_index == 16

\* const size_t maxbuf = 1024*1024*3092L, in words of 8 bytes (element
\* sizes that pass the alignment check are whole words).
maxbuf_words == 128 * 1024 * 3092

\* The entry model: free memory is given by F = freebytes div bytesperbuffer
\* and whether the division leaves a remainder, so that no product exceeds
\* the integers of the checker.  The element sizes are bytes.
BInputs ==
    [ tree_allocated : BOOLEAN,
      query_type_elsize : {40, 44, 48, 8 * 4100000},
      result_type_elsize : {16, 20},
      ImportBufferBoost : {0, 2},
      F : {4096 * 10 - 1, 4096 * 10, 4096 * 10 + 1, 4096 * 11 - 1, 4096 * 11,
           4096 * 11 + 1, 100000},
      remainder : BOOLEAN,
      has_preprocess : BOOLEAN ]

\* size_t bytesperbuffer of ev_begin.
bytesperbuffer(in) ==
    sizeof_data_index + in.query_type_elsize
    + in.ImportBufferBoost * (in.query_type_elsize + in.result_type_elsize)

\* if(freebytes <= 4096 * 11 * bytesperbuffer)
NotEnoughMemory(in) == in.F < 4096 * 11 \/ (in.F = 4096 * 11 /\ ~in.remainder)

\* The mutated BunchSize: the clamp to the send-buffer cap is missing.
ev_begin_BunchSize_noclamp(in) == in.F - 4096 * 10

\* tw->BunchSize as ev_begin computes it: floor((freebytes - 4096 * 10 *
\* bytesperbuffer) / bytesperbuffer), then clamped so that BunchSize *
\* query_type_elsize does not exceed maxbuf.
ev_begin_BunchSize(in) ==
    LET BunchSize == in.F - 4096 * 10
        words == in.query_type_elsize \div 8
    IN  IF BunchSize > maxbuf_words \div words
        THEN maxbuf_words \div words
        ELSE BunchSize

BInit ==
    /\ b_in \in BInputs
    /\ b_pc = "treewalk_run"
    /\ b_tw = [BunchSize |-> 0, DataIndexTable |-> FALSE]
    /\ b_log = <<>>
    /\ q_pc = "idle" /\ q_in = <<>> /\ q_scanned = {} /\ thrqueue = <<>>
    /\ WorkSet = <<>> /\ WorkSetSize = 0 /\ work_set_stolen_from_active = FALSE
    /\ v_pc = "idle" /\ v_in = <<>> /\ v_out = <<>>
    /\ r_in = <<>> /\ pc = <<>> /\ tw = <<>> /\ DataIndexTable = <<>>
    /\ currentIndex = <<>> /\ thr = <<>> /\ counts = <<>> /\ chanQ = <<>>
    /\ chanR = <<>> /\ redlog = <<>> /\ kcalls = <<>> /\ flaghist = <<>>
    /\ Ndone = <<>> /\ subiter = <<>>
    /\ x_pc = "idle" /\ x_in = <<>> /\ x_lv = <<>> /\ x_table = <<>> /\ x_calls = <<>>
    /\ s_pc = "idle" /\ s_in = <<>> /\ s_out = <<>>
    /\ h_pc = "idle" /\ h_in = <<>> /\ h_st = <<>> /\ h_log = <<>>
    /\ n_pc = "idle" /\ n_in = <<>> /\ n_out = <<>>
    /\ c_pc = "idle" /\ c_in = <<>> /\ c_cur = 0 /\ c_thr = <<>> /\ c_log = <<>>
    /\ e_pc = "idle" /\ e_in = <<>> /\ e_st = <<>> /\ e_log = <<>>
    /\ k_pc = "idle" /\ k_in = <<>> /\ k_out = <<>>

\* treewalk_run: if(!force_tree_allocated(tw->tree)) endrun.
BTreeCheck ==
    /\ b_pc = "treewalk_run"
    /\ b_pc' = IF b_in.tree_allocated THEN "ev_begin" ELSE "endrun"
    /\ UNCHANGED <<b_in, b_tw, b_log, notbvars>>

\* ev_begin: the queue is built and Ngblist allocated, then the checks:
\* alignment of the query, of the result, the free memory, the BunchSize;
\* when all pass DataIndexTable is allocated.
BEvBegin ==
    /\ b_pc = "ev_begin"
    /\ LET BunchSize == ev_begin_BunchSize(b_in)
           early == <<"treewalk_build_queue", "Ngblist">>
       IN  IF b_in.query_type_elsize % 8 # 0 \/ b_in.result_type_elsize % 8 # 0
              \/ NotEnoughMemory(b_in)
           THEN /\ b_pc' = "endrun" /\ b_log' = b_log \o early /\ b_tw' = b_tw
           ELSE IF BunchSize < 100
           THEN /\ b_pc' = "endrun" /\ b_log' = b_log \o early
                /\ b_tw' = [b_tw EXCEPT !.BunchSize = BunchSize]
           ELSE /\ b_pc' = "preprocess" /\ b_log' = b_log \o early
                /\ b_tw' = [BunchSize |-> BunchSize, DataIndexTable |-> TRUE]
    /\ UNCHANGED <<b_in, notbvars>>

\* if(tw->preprocess): the preprocess loop over the queue.
BPreprocess ==
    /\ b_pc = "preprocess"
    /\ b_log' = IF b_in.has_preprocess THEN Append(b_log, "preprocess") ELSE b_log
    /\ b_pc' = "loop"
    /\ UNCHANGED <<b_in, b_tw, notbvars>>

\* The first phases of the retry loop start.
BLoop ==
    /\ b_pc = "loop"
    /\ b_log' = b_log \o <<"ev_toptree", "ev_primary", "ev_secondary">>
    /\ b_pc' = "running"
    /\ UNCHANGED <<b_in, b_tw, notbvars>>

BNext == BTreeCheck \/ BEvBegin \/ BPreprocess \/ BLoop

SpecBegin == BInit /\ [][BNext]_vars

\* ------------------------------------------- a visitor on a single process
\* Four particles on the x axis of a periodic box, in units of 1/20 of the
\* box side: x = 0, 0.1, 0.5, 0.9 of a box of side 1.
Scene ==
    [ BoxSize |-> 20,
      Pos |-> [i \in Particles |->
                 CASE i = 0 -> <<0, 0, 0>> [] i = 1 -> <<2, 0, 0>>
                   [] i = 2 -> <<10, 0, 0>> [] i = 3 -> <<18, 0, 0>>] ]

\* The smoothing lengths of the scene: 0.2 for all, 0.1 for all, 0.3 for
\* all, and 0.1 with 0.3 for particle 3.
SceneHsml ==
    { [i \in Particles |-> 4], [i \in Particles |-> 2], [i \in Particles |-> 6],
      [i \in Particles |-> IF i = 3 THEN 6 ELSE 2] }

\* tree->Nodes over the scene on its only process: the root as one leaf of
\* four particles ("leaf"), or the root split along x into the octants
\* [0, 0.5) and [0.5, 1) ("split").  No node is a pseudo node.
SceneNodes(shape, Hsml) ==
    LET hmax(S) == SetMax({Hsml[i] : i \in S})
        node(center, len, sibling, ChildType, suns, below) ==
            [ center |-> center, len |-> len, sibling |-> sibling, hmax |-> hmax(below),
              TopLevel |-> len = Scene.BoxSize, InternalTopLevel |-> FALSE,
              ChildType |-> ChildType, suns |-> suns,
              noccupied |-> IF ChildType = PARTICLE_NODE_TYPE THEN Len(suns) ELSE 0 ]
    IN  IF shape = "leaf"
        THEN [no \in {4} |->
                node(<<10, 10, 10>>, 20, -1, PARTICLE_NODE_TYPE, <<0, 1, 2, 3>>, Particles)]
        ELSE [no \in {4, 5, 6} |->
                CASE no = 4 -> node(<<10, 10, 10>>, 20, -1, NODE_NODE_TYPE, <<5>>, Particles)
                  [] no = 5 -> node(<<5, 5, 5>>, 10, 6, PARTICLE_NODE_TYPE, <<0, 1>>, {0, 1})
                  [] no = 6 -> node(<<15, 5, 5>>, 10, -1, PARTICLE_NODE_TYPE, <<2, 3>>, {2, 3})]

\* The calls: a PRIMARY walk from the root for each target, by either
\* visitor, asymmetric or symmetric.
SceneInputs ==
    [ variant : {"ngbiter", "nolist"}, shape : {"leaf", "split"}, Hsml : SceneHsml,
      symmetric : BOOLEAN, particle : Particles ]

\* The particle table of the scene: every particle of type 0, none garbage.
SceneP(in) ==
    [Pos |-> Scene.Pos, Hsml |-> in.Hsml, Type |-> [i \in Particles |-> 0],
     IsGarbage |-> [i \in Particles |-> FALSE]]

\* The visitor's call for target i of the scene.
SceneVisit(in, i) ==
    LET P == SceneP(in)
        I == treewalk_init_query(P, [mask |-> {0}, symmetric |-> in.symmetric], i, <<>>)
        lv == [VisitLv(TREEWALK_PRIMARY, i) EXCEPT !.tree.BoxSize = Scene.BoxSize]
    IN  Visit(in.variant, SceneNodes(in.shape, in.Hsml), [l \in TopLeafNodes |-> 0],
              P, I, lv, VisitTable)

SInit ==
    /\ s_in \in SceneInputs
    /\ s_pc = "call"
    /\ s_out = <<>>
    /\ q_pc = "idle" /\ q_in = <<>> /\ q_scanned = {} /\ thrqueue = <<>>
    /\ WorkSet = <<>> /\ WorkSetSize = 0 /\ work_set_stolen_from_active = FALSE
    /\ v_pc = "idle" /\ v_in = <<>> /\ v_out = <<>>
    /\ r_in = <<>> /\ pc = <<>> /\ tw = <<>> /\ DataIndexTable = <<>>
    /\ currentIndex = <<>> /\ thr = <<>> /\ counts = <<>> /\ chanQ = <<>>
    /\ chanR = <<>> /\ redlog = <<>> /\ kcalls = <<>> /\ flaghist = <<>>
    /\ Ndone = <<>> /\ subiter = <<>>
    /\ x_pc = "idle" /\ x_in = <<>> /\ x_lv = <<>> /\ x_table = <<>> /\ x_calls = <<>>
    /\ b_pc = "idle" /\ b_in = <<>> /\ b_tw = <<>> /\ b_log = <<>>
    /\ h_pc = "idle" /\ h_in = <<>> /\ h_st = <<>> /\ h_log = <<>>
    /\ n_pc = "idle" /\ n_in = <<>> /\ n_out = <<>>
    /\ c_pc = "idle" /\ c_in = <<>> /\ c_cur = 0 /\ c_thr = <<>> /\ c_log = <<>>
    /\ e_pc = "idle" /\ e_in = <<>> /\ e_st = <<>> /\ e_log = <<>>
    /\ k_pc = "idle" /\ k_in = <<>> /\ k_out = <<>>

\* tw->visit(input, output, lv) for the target drawn.
SceneCall ==
    /\ s_pc = "call"
    /\ s_out' = SceneVisit(s_in, s_in.particle)
    /\ s_pc' = "returned"
    /\ UNCHANGED <<s_in, notsvars>>

SNext == SceneCall

SpecScene == SInit /\ [][SNext]_vars

\* ------------------------------------------------ treewalk_do_hsml_loop
\* MAXITER: the passes allowed before the loop gives up.
MAXITER == MaxIter

\* The calls: update_hsml, the threads, tw->Niteration as the caller left
\* it, and the size of the first queue treewalk_build_queue made on each
\* task (its particles are numbered from 0).
HsmlInputs ==
    [ update_hsml : BOOLEAN, NumThreads : 1 .. MaxThread, Niteration : {0, 1},
      size : [Tasks -> 0 .. MaxPart] ]

\* What the kernel leaves in tw->NPRedo after a pass over CurQueue: every
\* particle of the queue is either done or appended to the list of the
\* thread that walked it; a thread walks its particles in queue order.
\* assign[k] is the thread of the k-th particle, -1 for a particle done.
RedoLists(CurQueue, NumThreads, assign) ==
    [t \in 0 .. NumThreads - 1 |->
        FilterSeq(CurQueue, {CurQueue[k] : k \in {j \in 1 .. Len(CurQueue) : assign[j] = t}})]

\* The mutated exit test: the task looks at its own redo count.
HsmlStop_local(size, ntot) == size = 0

\* if(ntot == 0) break.
HsmlStop(size, ntot) == ntot = 0

\* if(size > 0 && tw->Niteration > MAXITER) endrun.
HsmlGiveUp(size, Niteration) == size > 0 /\ Niteration > MAXITER

HInit ==
    /\ h_in \in HsmlInputs
    /\ h_pc = "loop"
    /\ h_st = [p \in Tasks |->
                 [ pc |-> "run", ReDoQueue |-> [k \in 1 .. h_in.size[p] |-> k - 1],
                   size |-> h_in.size[p], ntot |-> 0, alloc_high |-> 0,
                   NPRedo |-> [t \in 0 .. h_in.NumThreads - 1 |-> <<>>],
                   Niteration |-> h_in.Niteration ]]
    /\ h_log = [p \in Tasks |-> [runs |-> 0, CurQueue |-> <<>>]]
    /\ q_pc = "idle" /\ q_in = <<>> /\ q_scanned = {} /\ thrqueue = <<>>
    /\ WorkSet = <<>> /\ WorkSetSize = 0 /\ work_set_stolen_from_active = FALSE
    /\ v_pc = "idle" /\ v_in = <<>> /\ v_out = <<>>
    /\ r_in = <<>> /\ pc = <<>> /\ tw = <<>> /\ DataIndexTable = <<>>
    /\ currentIndex = <<>> /\ thr = <<>> /\ counts = <<>> /\ chanQ = <<>>
    /\ chanR = <<>> /\ redlog = <<>> /\ kcalls = <<>> /\ flaghist = <<>>
    /\ Ndone = <<>> /\ subiter = <<>>
    /\ x_pc = "idle" /\ x_in = <<>> /\ x_lv = <<>> /\ x_table = <<>> /\ x_calls = <<>>
    /\ b_pc = "idle" /\ b_in = <<>> /\ b_tw = <<>> /\ b_log = <<>>
    /\ s_pc = "idle" /\ s_in = <<>> /\ s_out = <<>>
    /\ n_pc = "idle" /\ n_in = <<>> /\ n_out = <<>>
    /\ c_pc = "idle" /\ c_in = <<>> /\ c_cur = 0 /\ c_thr = <<>> /\ c_log = <<>>
    /\ e_pc = "idle" /\ e_in = <<>> /\ e_st = <<>> /\ e_log = <<>>
    /\ k_pc = "idle" /\ k_in = <<>> /\ k_out = <<>>

\* A pass of task p with update_hsml set: the redo arrays are set up,
\* treewalk_run walks CurQueue and the kernel fills the redo lists, and the
\* lists are compacted into the next queue.  The passes of different tasks
\* share no memory, so they are taken in rank order.
HsmlPass(p) ==
    /\ h_pc = "loop" /\ h_in.update_hsml
    /\ h_st[p].pc = "run" /\ \A q \in Tasks : q < p => h_st[q].pc # "run"
    /\ \E assign \in [1 .. h_st[p].size -> -1 .. h_in.NumThreads - 1] :
          LET CurQueue == h_st[p].ReDoQueue
              NPRedo == RedoLists(CurQueue, h_in.NumThreads, assign)
              next == gadget_compact_thread_arrays(NPRedo, h_in.NumThreads)
          IN  /\ h_st' = [h_st EXCEPT ![p] =
                            [@ EXCEPT !.pc = "allreduce", !.ReDoQueue = next,
                                      !.size = Len(next), !.NPRedo = NPRedo,
                                      !.alloc_high = 1 - @,
                                      !.Niteration = @ + 1]]
              /\ h_log' = [h_log EXCEPT ![p] =
                            [runs |-> @.runs + 1, CurQueue |-> CurQueue]]
    /\ UNCHANGED <<h_pc, h_in, nothvars>>

\* The only pass of task p with update_hsml = 0: treewalk_run, then break.
HsmlOnce(p) ==
    /\ h_pc = "loop" /\ ~h_in.update_hsml
    /\ h_st[p].pc = "run" /\ \A q \in Tasks : q < p => h_st[q].pc # "run"
    /\ h_st' = [h_st EXCEPT ![p] = [@ EXCEPT !.pc = "done", !.Niteration = @ + 1]]
    /\ h_log' = [h_log EXCEPT ![p] =
                    [runs |-> @.runs + 1, CurQueue |-> h_st[p].ReDoQueue]]
    /\ UNCHANGED <<h_pc, h_in, nothvars>>

\* MPI_Allreduce of size and what each task does with the total: it leaves
\* the loop, gives up (endrun ends every task) or goes round again.
HsmlAllreduce ==
    /\ h_pc = "loop"
    /\ \A p \in Tasks : h_st[p].pc = "allreduce"
    /\ LET ntot == SumTo([p \in Tasks |-> h_st[p].size], MaxTask)
           to(p) == IF HsmlStop(h_st[p].size, ntot) THEN "done"
                    ELSE IF HsmlGiveUp(h_st[p].size, h_st[p].Niteration) THEN "endrun"
                    ELSE "run"
       IN  IF \E p \in Tasks : to(p) = "endrun"
           THEN /\ h_pc' = "endrun"
                /\ h_st' = [p \in Tasks |-> [h_st[p] EXCEPT !.pc = "endrun", !.ntot = ntot]]
           ELSE /\ h_pc' = h_pc
                /\ h_st' = [p \in Tasks |-> [h_st[p] EXCEPT !.pc = to(p), !.ntot = ntot]]
    /\ UNCHANGED <<h_in, h_log, nothvars>>

HNext ==
    \/ \E p \in Tasks : HsmlPass(p)
    \/ \E p \in Tasks : HsmlOnce(p)
    \/ HsmlAllreduce

SpecHsml == HInit /\ [][HNext]_vars

\* ------------------------------------------------------ ngb_narrow_down
\* Radii are whole numbers; a radius the function computes is kept by its
\* cube, the fraction num / den with den > 0, so that pow(x, 3) and
\* pow(v, 1./3) are exact.  NaN, the result of pow(v, 1./3) for v < 0, is
\* the fraction with den = 0.
NaN == [num |-> 0, den |-> 0]
Cube(x) == x * x * x
Radius(r) == [num |-> Cube(r), den |-> 1]

\* a < b for two computed radii; every comparison with a NaN is false.
Less(a, b) == a # NaN /\ b # NaN /\ a.num * b.den < b.num * a.den

\* pow(pow(hsml, 3) + dngb / dngbdv, 1./3) with dngbdv = dn / dv.
Extrapolated(hsml, dngb, dn, dv) ==
    LET newvolume == [num |-> hsml.num * dn + dngb * dv * hsml.den, den |-> hsml.den * dn]
    IN  IF newvolume.num < 0 THEN NaN ELSE newvolume

\* The calls: one to three trial radii in ascending order with the
\* neighbour counts found within them (a larger radius holds no fewer),
\* the desired count, and the bounds the caller kept from earlier calls.
NarrowInputs ==
    { in \in [ maxcmpt : 1 .. MaxLen, radius : [1 .. MaxLen -> 1 .. 4],
               numNgb : [1 .. MaxLen -> 0 .. 4], desnumngb : 1 .. 3,
               left : {0, 1}, right : {4, 10}, BoxSize : {10} ] :
        /\ \A j \in 1 .. MaxLen - 1 :
              IF j < in.maxcmpt
              THEN in.radius[j] < in.radius[j + 1] /\ in.numNgb[j] <= in.numNgb[j + 1]
              ELSE in.radius[j + 1] = 4 /\ in.numNgb[j + 1] = 0
        /\ in.left <= in.radius[1] }

\* The first loop: the index of the trial closest to desnumngb in count,
\* the first on a tie (0-based, as the code has it).
CloseIdx(in) ==
    LET d(j) == IF in.numNgb[j] >= in.desnumngb THEN in.numNgb[j] - in.desnumngb
                ELSE in.desnumngb - in.numNgb[j]
    IN  (CHOOSE j \in 1 .. in.maxcmpt :
            /\ \A k \in 1 .. in.maxcmpt : d(j) <= d(k)
            /\ \A k \in 1 .. j - 1 : d(k) > d(j)) - 1

\* The second loop: left is the radius of the last trial below desnumngb
\* and right the radius of the first trial above it, where the loop ends.
Bounds(in) ==
    LET above == {j \in 1 .. in.maxcmpt : in.numNgb[j] > in.desnumngb}
        stop == IF above = {} THEN in.maxcmpt ELSE SetMin(above)
        below == {j \in 1 .. stop : in.numNgb[j] < in.desnumngb}
    IN  [ left |-> IF below = {} THEN in.left ELSE in.radius[SetMax(below)],
          right |-> IF above = {} THEN in.right ELSE in.radius[stop] ]

\* ngb_narrow_down(right, left, radius, numNgb, maxcmpt, desnumngb,
\* closeidx, BoxSize): the new hsml, the updated bounds and closeidx.
\* right > 0.99 * BoxSize is 100 * right > 99 * BoxSize; 4 * hsml has 64
\* times the cube; dngbdv = dn / dv is positive exactly when dn is, dv
\* being positive where dn is set.
ngb_narrow_down(in) ==
    LET b == Bounds(in)
        close == CloseIdx(in)
        h0 == Radius(in.radius[close + 1])
        n == in.maxcmpt
        h1 == IF 100 * b.right > 99 * in.BoxSize
              THEN LET dn == IF n > 1 /\ in.radius[n] > in.radius[n - 1]
                             THEN in.numNgb[n] - in.numNgb[n - 1] ELSE 0
                       dv == IF n > 1 THEN Cube(in.radius[n]) - Cube(in.radius[n - 1]) ELSE 1
                       newhsml == [h0 EXCEPT !.num = 64 * @]
                       e == Extrapolated(h0, in.desnumngb - in.numNgb[n], dn, dv)
                   IN  IF dn > 0 /\ Less(e, newhsml) THEN e ELSE newhsml
              ELSE h0
        h2 == IF Less(Radius(b.right), h1) THEN Radius(b.right) ELSE h1
        h3 == IF b.left = 0
              THEN LET dn == IF n = 1 THEN in.numNgb[1]
                             ELSE IF in.radius[2] > in.radius[1]
                             THEN in.numNgb[2] - in.numNgb[1] ELSE 0
                       dv == IF n = 1 THEN Cube(in.radius[1])
                             ELSE Cube(in.radius[2]) - Cube(in.radius[1])
                   IN  IF dn > 0
                       THEN Extrapolated(h2, in.desnumngb - in.numNgb[1], dn, dv)
                       ELSE h2
              ELSE h2
        h4 == IF Less(h3, Radius(b.left)) THEN Radius(b.left) ELSE h3
    IN  [hsml |-> h4, right |-> b.right, left |-> b.left, closeidx |-> close]

NInit ==
    /\ n_in \in NarrowInputs
    /\ n_pc = "call"
    /\ n_out = <<>>
    /\ q_pc = "idle" /\ q_in = <<>> /\ q_scanned = {} /\ thrqueue = <<>>
    /\ WorkSet = <<>> /\ WorkSetSize = 0 /\ work_set_stolen_from_active = FALSE
    /\ v_pc = "idle" /\ v_in = <<>> /\ v_out = <<>>
    /\ r_in = <<>> /\ pc = <<>> /\ tw = <<>> /\ DataIndexTable = <<>>
    /\ currentIndex = <<>> /\ thr = <<>> /\ counts = <<>> /\ chanQ = <<>>
    /\ chanR = <<>> /\ redlog = <<>> /\ kcalls = <<>> /\ flaghist = <<>>
    /\ Ndone = <<>> /\ subiter = <<>>
    /\ x_pc = "idle" /\ x_in = <<>> /\ x_lv = <<>> /\ x_table = <<>> /\ x_calls = <<>>
    /\ b_pc = "idle" /\ b_in = <<>> /\ b_tw = <<>> /\ b_log = <<>>
    /\ s_pc = "idle" /\ s_in = <<>> /\ s_out = <<>>
    /\ h_pc = "idle" /\ h_in = <<>> /\ h_st = <<>> /\ h_log = <<>>
    /\ c_pc = "idle" /\ c_in = <<>> /\ c_cur = 0 /\ c_thr = <<>> /\ c_log = <<>>
    /\ e_pc = "idle" /\ e_in = <<>> /\ e_st = <<>> /\ e_log = <<>>
    /\ k_pc = "idle" /\ k_in = <<>> /\ k_out = <<>>

\* The call returns.
NarrowCall ==
    /\ n_pc = "call"
    /\ n_out' = ngb_narrow_down(n_in)
    /\ n_pc' = "returned"
    /\ UNCHANGED <<n_in, notnvars>>

NNext == NarrowCall

SpecNarrow == NInit /\ [][NNext]_vars

\* ---------------------------------------------- the chunk loop of ev_toptree
\* The passes the loop is run on: the queue length, the resume index (0 on
\* the first pass, WorkSetSize + 1 on the pass after an overflow) and the
\* number of threads; the two long queues are walked by two threads and by
\* one.
ChunkInputs ==
    { in \in [ WorkSetSize : (0 .. MaxQueue) \cup {MidQueue, BigQueue},
               WorkSetStart : 0 .. BigQueue + 1, NThread : 1 .. MaxThread ] :
        /\ in.WorkSetStart \in {0, in.WorkSetSize + 1}
        /\ in.WorkSetSize = MidQueue => in.NThread = 2
        /\ in.WorkSetSize = BigQueue => in.NThread = 1 }

ChunkThreads == 0 .. c_in.NThread - 1

\* ev_toptree up to the do loop: currentIndex = tw->WorkSetStart, and in
\* every thread lastSucceeded = WorkSetStart - 1 and the first chunk size.
CInit ==
    /\ c_in \in ChunkInputs
    /\ c_pc = "threads"
    /\ c_cur = c_in.WorkSetStart
    /\ c_thr = [t \in 0 .. c_in.NThread - 1 |->
                  [ at |-> "claim", lastSucceeded |-> c_in.WorkSetStart - 1, chnk |-> 0,
                    chnksz |-> ChunkSize(c_in.WorkSetSize, c_in.NThread), end |-> 0,
                    BufferFullFlag |-> 0 ]]
    /\ c_log = <<>>
    /\ q_pc = "idle" /\ q_in = <<>> /\ q_scanned = {} /\ thrqueue = <<>>
    /\ WorkSet = <<>> /\ WorkSetSize = 0 /\ work_set_stolen_from_active = FALSE
    /\ v_pc = "idle" /\ v_in = <<>> /\ v_out = <<>>
    /\ r_in = <<>> /\ pc = <<>> /\ tw = <<>> /\ DataIndexTable = <<>>
    /\ currentIndex = <<>> /\ thr = <<>> /\ counts = <<>> /\ chanQ = <<>>
    /\ chanR = <<>> /\ redlog = <<>> /\ kcalls = <<>> /\ flaghist = <<>>
    /\ Ndone = <<>> /\ subiter = <<>>
    /\ x_pc = "idle" /\ x_in = <<>> /\ x_lv = <<>> /\ x_table = <<>> /\ x_calls = <<>>
    /\ b_pc = "idle" /\ b_in = <<>> /\ b_tw = <<>> /\ b_log = <<>>
    /\ s_pc = "idle" /\ s_in = <<>> /\ s_out = <<>>
    /\ h_pc = "idle" /\ h_in = <<>> /\ h_st = <<>> /\ h_log = <<>>
    /\ n_pc = "idle" /\ n_in = <<>> /\ n_out = <<>>
    /\ e_pc = "idle" /\ e_in = <<>> /\ e_st = <<>> /\ e_log = <<>>
    /\ k_pc = "idle" /\ k_in = <<>> /\ k_out = <<>>

\* The head of the do loop in thread tid: the fetch-and-add on the shared
\* counter, the end of the chunk, and the halving of the chunk size near
\* the end of the queue.
ChunkClaim(tid) ==
    /\ c_pc = "threads" /\ c_thr[tid].at = "claim"
    /\ LET t == c_thr[tid]
           f == atomic_fetch_and_add(c_cur, t.chnksz, c_in.WorkSetSize)
           chnk == f.old
           end == Min(chnk + t.chnksz, c_in.WorkSetSize)
           chnksz == IF c_in.WorkSetSize < end + t.chnksz * c_in.NThread /\ t.chnksz >= 2
                     THEN t.chnksz \div 2 ELSE t.chnksz
       IN  /\ c_cur' = f.new
           /\ c_thr' = [c_thr EXCEPT ![tid] =
                          [t EXCEPT !.chnk = chnk, !.end = end, !.chnksz = chnksz, !.at = "for"]]
           /\ c_log' = Append(c_log, [tid |-> tid, chnk |-> chnk, end |-> end,
                                      chnksz |-> t.chnksz])
    /\ UNCHANGED <<c_pc, c_in, notcvars>>

\* The for loop over the chunk and the code after it. The walks are seen
\* by their results only: the walk of queue index stop returns < 0 (stop
\* = end: none does), and full tells whether the slice is full after the
\* loop, which it is after a walk that returned < 0 and may be after a
\* walk that exported. A thread with a full slice raises the flag and
\* leaves, any other goes on while chnk < WorkSetSize.
ChunkFor(tid) ==
    /\ c_pc = "threads" /\ c_thr[tid].at = "for"
    /\ LET t == c_thr[tid]
           last == Max(t.chnk, t.end)
       IN  \E stop \in t.chnk .. last : \E full \in BOOLEAN :
               /\ stop < last => full
               /\ t.chnk >= t.end => ~full
               /\ c_thr' = [c_thr EXCEPT ![tid] =
                     [t EXCEPT !.lastSucceeded = IF stop > t.chnk THEN stop - 1 ELSE @,
                               !.BufferFullFlag = IF full THEN 1 ELSE 0,
                               !.at = IF full \/ ~(t.chnk < c_in.WorkSetSize)
                                      THEN "done" ELSE "claim"]]
    /\ UNCHANGED <<c_pc, c_in, c_cur, c_log, notcvars>>

\* The end of the parallel region.
ChunkJoin ==
    /\ c_pc = "threads"
    /\ \A t \in ChunkThreads : c_thr[t].at = "done"
    /\ c_pc' = "joined"
    /\ UNCHANGED <<c_in, c_cur, c_thr, c_log, notcvars>>

CNext ==
    \/ \E tid \in ChunkThreads : ChunkClaim(tid)
    \/ \E tid \in ChunkThreads : ChunkFor(tid)
    \/ ChunkJoin

SpecChunk == CInit /\ [][CNext]_vars

\* ------------------------------------- the exchanges of one sub-iteration
\* Export_count of every task: which tasks it exports queries to (never to
\* itself; here to the next two ranks at most); Import_count of task q
\* from task p is Export_count[p][q].
CommInputs ==
    { c \in [Tasks -> [Tasks -> 0 .. 1]] :
        \A p, q \in Tasks : c[p][q] > 0 => (q - p) % NTask \in {1, 2} }

\* The query task p exports to task q, and the result made from a query.
QueryOf(p, q) == [query |-> <<p, q>>]
ResultOf(data) == [result |-> data]

\* What a buffer holds where nothing was received into it, or after it
\* was freed.
Uninitialized == [junk |-> TRUE]

\* A CommBuffer: none (not allocated), posted (its requests are posted) or
\* freed; databuf[q] is the part exchanged with task q, and done[q] says
\* that the request with task q has completed.
NoBuffer ==
    [ state |-> "none", databuf |-> [q \in Tasks |-> Uninitialized],
      done |-> [q \in Tasks |-> FALSE] ]

\* A sub-iteration after ev_ndone: no CommBuffer is allocated yet.
EInit ==
    /\ e_in \in CommInputs
    /\ e_pc = "run"
    /\ e_st = [p \in Tasks |->
                 [ pc |-> "recv_queries", imports |-> NoBuffer, exports |-> NoBuffer,
                   res_exports |-> NoBuffer, res_imports |-> NoBuffer ]]
    /\ e_log = [p \in Tasks |-> [ev_secondary |-> <<>>, reduce |-> <<>>]]
    /\ q_pc = "idle" /\ q_in = <<>> /\ q_scanned = {} /\ thrqueue = <<>>
    /\ WorkSet = <<>> /\ WorkSetSize = 0 /\ work_set_stolen_from_active = FALSE
    /\ v_pc = "idle" /\ v_in = <<>> /\ v_out = <<>>
    /\ r_in = <<>> /\ pc = <<>> /\ tw = <<>> /\ DataIndexTable = <<>>
    /\ currentIndex = <<>> /\ thr = <<>> /\ counts = <<>> /\ chanQ = <<>>
    /\ chanR = <<>> /\ redlog = <<>> /\ kcalls = <<>> /\ flaghist = <<>>
    /\ Ndone = <<>> /\ subiter = <<>>
    /\ x_pc = "idle" /\ x_in = <<>> /\ x_lv = <<>> /\ x_table = <<>> /\ x_calls = <<>>
    /\ b_pc = "idle" /\ b_in = <<>> /\ b_tw = <<>> /\ b_log = <<>>
    /\ s_pc = "idle" /\ s_in = <<>> /\ s_out = <<>>
    /\ h_pc = "idle" /\ h_in = <<>> /\ h_st = <<>> /\ h_log = <<>>
    /\ n_pc = "idle" /\ n_in = <<>> /\ n_out = <<>>
    /\ c_pc = "idle" /\ c_in = <<>> /\ c_cur = 0 /\ c_thr = <<>> /\ c_log = <<>>
    /\ k_pc = "idle" /\ k_in = <<>> /\ k_out = <<>>

\* The tasks task p exports queries to, and those it imports queries from.
ExportPeers(p) == {q \in Tasks : e_in[p][q] > 0}
ImportPeers(p) == {q \in Tasks : e_in[q][p] > 0}

\* The mutated wait: it returns at once.
wait_commbuffer_nowait(buffer, peers) == TRUE

\* wait_commbuffer(&buffer) returns: every request of the buffer is done.
wait_commbuffer(buffer, peers) == \A q \in peers : buffer.done[q]

\* free_commbuffer(&buffer).
free_commbuffer(buffer) ==
    [buffer EXCEPT !.state = "freed", !.databuf = [q \in Tasks |-> Uninitialized]]

\* ev_send_recv_export_import, first half: imports is allocated and its
\* receives are posted.
PostRecvQueries(p) ==
    /\ e_pc = "run" /\ e_st[p].pc = "recv_queries"
    /\ e_st' = [e_st EXCEPT ![p].imports.state = "posted", ![p].pc = "send_queries"]
    /\ UNCHANGED <<e_pc, e_in, e_log, notevars>>

\* ev_send_recv_export_import, second half: the queries are built in
\* exports and its sends are posted; ev_primary follows.
PostSendQueries(p) ==
    /\ e_pc = "run" /\ e_st[p].pc = "send_queries"
    /\ e_st' = [e_st EXCEPT
                  ![p].exports.state = "posted",
                  ![p].exports.databuf =
                      [q \in Tasks |-> IF q \in ExportPeers(p) THEN QueryOf(p, q)
                                       ELSE Uninitialized],
                  ![p].pc = "ev_secondary"]
    /\ UNCHANGED <<e_pc, e_in, e_log, notevars>>

\* wait_commbuffer(&imports), ev_secondary on imports.databuf,
\* free_commbuffer(&imports): dataresult holds a result per imported query.
CommSecondary(p) ==
    /\ e_pc = "run" /\ e_st[p].pc = "ev_secondary"
    /\ wait_commbuffer(e_st[p].imports, ImportPeers(p))
    /\ e_log' = [e_log EXCEPT ![p].ev_secondary = <<e_st[p].imports.databuf>>]
    /\ e_st' = [e_st EXCEPT
                  ![p].res_imports.databuf =
                      [q \in Tasks |-> IF q \in ImportPeers(p)
                                       THEN ResultOf(e_st[p].imports.databuf[q])
                                       ELSE Uninitialized],
                  ![p].imports = free_commbuffer(@),
                  ![p].pc = "wait_exports"]
    /\ UNCHANGED <<e_pc, e_in, notevars>>

\* wait_commbuffer(&exports); free_commbuffer(&exports).
CommFreeExports(p) ==
    /\ e_pc = "run" /\ e_st[p].pc = "wait_exports"
    /\ wait_commbuffer(e_st[p].exports, ExportPeers(p))
    /\ e_st' = [e_st EXCEPT ![p].exports = free_commbuffer(@), ![p].pc = "recv_results"]
    /\ UNCHANGED <<e_pc, e_in, e_log, notevars>>

\* ev_recv_send_result, first call of MPI_iAlltoAll_sparse: res_exports is
\* allocated and its receives are posted.
PostRecvResults(p) ==
    /\ e_pc = "run" /\ e_st[p].pc = "recv_results"
    /\ e_st' = [e_st EXCEPT ![p].res_exports.state = "posted", ![p].pc = "send_results"]
    /\ UNCHANGED <<e_pc, e_in, e_log, notevars>>

\* ev_recv_send_result, second call: the sends of res_imports (dataresult)
\* are posted.
PostSendResults(p) ==
    /\ e_pc = "run" /\ e_st[p].pc = "send_results"
    /\ e_st' = [e_st EXCEPT ![p].res_imports.state = "posted", ![p].pc = "reduce"]
    /\ UNCHANGED <<e_pc, e_in, e_log, notevars>>

\* wait_commbuffer(&res_exports); ev_reduce_export_result reads
\* res_exports.databuf.
CommReduce(p) ==
    /\ e_pc = "run" /\ e_st[p].pc = "reduce"
    /\ wait_commbuffer(e_st[p].res_exports, ExportPeers(p))
    /\ e_log' = [e_log EXCEPT ![p].reduce = <<e_st[p].res_exports.databuf>>]
    /\ e_st' = [e_st EXCEPT ![p].pc = "wait_results"]
    /\ UNCHANGED <<e_pc, e_in, notevars>>

\* wait_commbuffer(&res_imports); free_commbuffer of res_exports and of
\* res_imports.
CommFreeResults(p) ==
    /\ e_pc = "run" /\ e_st[p].pc = "wait_results"
    /\ wait_commbuffer(e_st[p].res_imports, ImportPeers(p))
    /\ e_st' = [e_st EXCEPT ![p].res_exports = free_commbuffer(@),
                            ![p].res_imports = free_commbuffer(@),
                            ![p].pc = "done"]
    /\ UNCHANGED <<e_pc, e_in, e_log, notevars>>

\* A message of the sparse all-to-all goes from the buffer send of task p
\* to the buffer recv of task q once both requests are posted: the bytes
\* the send buffer holds at that moment are copied, and both requests are
\* done.  st is e_st, and the result is the new e_st.
Delivered(st, p, send, q, recv) ==
    [a \in Tasks |->
        [f \in DOMAIN st[a] |->
            IF a = p /\ f = send THEN [st[a][f] EXCEPT !.done[q] = TRUE]
            ELSE IF a = q /\ f = recv
            THEN [st[a][f] EXCEPT !.done[p] = TRUE,
                                  !.databuf[p] = IF st[q][recv].state = "posted"
                                                 THEN st[p][send].databuf[q] ELSE @]
            ELSE st[a][f]]]

\* The query of task p for task q is delivered.
TransferQuery(p, q) ==
    /\ e_pc = "run" /\ q \in ExportPeers(p)
    /\ e_st[p].exports.state # "none" /\ ~e_st[p].exports.done[q]
    /\ e_st[q].imports.state # "none" /\ ~e_st[q].imports.done[p]
    /\ e_st' = Delivered(e_st, p, "exports", q, "imports")
    /\ UNCHANGED <<e_pc, e_in, e_log, notevars>>

\* The result of task q for the query of task p is delivered.
TransferResult(q, p) ==
    /\ e_pc = "run" /\ q \in ExportPeers(p)
    /\ e_st[q].res_imports.state # "none" /\ ~e_st[q].res_imports.done[p]
    /\ e_st[p].res_exports.state # "none" /\ ~e_st[p].res_exports.done[q]
    /\ e_st' = Delivered(e_st, q, "res_imports", p, "res_exports")
    /\ UNCHANGED <<e_pc, e_in, e_log, notevars>>

ENext ==
    \/ \E p \in Tasks : PostRecvQueries(p)
    \/ \E p \in Tasks : PostSendQueries(p)
    \/ \E p \in Tasks : CommSecondary(p)
    \/ \E p \in Tasks : CommFreeExports(p)
    \/ \E p \in Tasks : PostRecvResults(p)
    \/ \E p \in Tasks : PostSendResults(p)
    \/ \E p \in Tasks : CommReduce(p)
    \/ \E p \in Tasks : CommFreeResults(p)
    \/ \E p, q \in Tasks : TransferQuery(p, q)
    \/ \E p, q \in Tasks : TransferResult(q, p)

SpecComm == EInit /\ [][ENext]_vars

\* ------------------------------------------------------ one call of cull_node
\* The nodes cull_node is called on: a node inside the box, one at its far
\* corner and one as large as a box of 8.
CullNodes ==
    { [center |-> <<2, 2, 2>>, len |-> 4], [center |-> <<7, 7, 7>>, len |-> 2],
      [center |-> <<4, 4, 4>>, len |-> 8] }

\* The places of a particle of the node on one axis: the faces and the
\* middle of its cube, inside the box.
CubePlaces(node, d) ==
    {node.center[d] - node.len \div 2, node.center[d], node.center[d] + node.len \div 2}
        \cap (0 .. CullBox - 1)

\* A call: the node with its mom.hmax, a particle b in its cube (P[b].Pos,
\* P[b].Hsml <= hmax), and the query (I->Pos, iter->Hsml, iter->symmetric).
\* An asymmetric query does not read the smoothing lengths of the tree.
CullInputs ==
    UNION { { in \in [ node : {n}, hmax : 1 .. MaxHsml,
                       bPos : CubePlaces(n, 1) \X CubePlaces(n, 2) \X CubePlaces(n, 3),
                       bHsml : 1 .. MaxHsml,
                       Pos : (0 .. CullBox - 1) \X (0 .. CullBox - 1) \X {0, 3, 6},
                       Hsml : 1 .. MaxHsml, symmetric : BOOLEAN ] :
                /\ in.bHsml <= in.hmax
                /\ in.hmax \in {in.bHsml, MaxHsml}
                /\ ~in.symmetric => in.bHsml = 1 /\ in.hmax = 1 } : n \in CullNodes }

KInit ==
    /\ k_in \in CullInputs
    /\ k_pc = "call"
    /\ k_out = <<>>
    /\ q_pc = "idle" /\ q_in = <<>> /\ q_scanned = {} /\ thrqueue = <<>>
    /\ WorkSet = <<>> /\ WorkSetSize = 0 /\ work_set_stolen_from_active = FALSE
    /\ v_pc = "idle" /\ v_in = <<>> /\ v_out = <<>>
    /\ r_in = <<>> /\ pc = <<>> /\ tw = <<>> /\ DataIndexTable = <<>>
    /\ currentIndex = <<>> /\ thr = <<>> /\ counts = <<>> /\ chanQ = <<>>
    /\ chanR = <<>> /\ redlog = <<>> /\ kcalls = <<>> /\ flaghist = <<>>
    /\ Ndone = <<>> /\ subiter = <<>>
    /\ x_pc = "idle" /\ x_in = <<>> /\ x_lv = <<>> /\ x_table = <<>> /\ x_calls = <<>>
    /\ b_pc = "idle" /\ b_in = <<>> /\ b_tw = <<>> /\ b_log = <<>>
    /\ s_pc = "idle" /\ s_in = <<>> /\ s_out = <<>>
    /\ h_pc = "idle" /\ h_in = <<>> /\ h_st = <<>> /\ h_log = <<>>
    /\ n_pc = "idle" /\ n_in = <<>> /\ n_out = <<>>
    /\ c_pc = "idle" /\ c_in = <<>> /\ c_cur = 0 /\ c_thr = <<>> /\ c_log = <<>>
    /\ e_pc = "idle" /\ e_in = <<>> /\ e_st = <<>> /\ e_log = <<>>

\* cull_node(I, iter, current, BoxSize) returns.
CullCall ==
    /\ k_pc = "call"
    /\ k_out' = cull_node([Pos |-> k_in.Pos],
                          [Hsml |-> k_in.Hsml, symmetric |-> k_in.symmetric],
                          [center |-> k_in.node.center, len |-> k_in.node.len,
                           hmax |-> k_in.hmax],
                          CullBox)
    /\ k_pc' = "returned"
    /\ UNCHANGED <<k_in, notkvars>>

KNext == CullCall

SpecCull == KInit /\ [][KNext]_vars

\* C7: on the scanning path the queue equals the active set filtered
\* sequentially (garbage and !haswork dropped): same elements, same order,
\* and WorkSetSize is its length.
C7_QueueOrderPreserved ==
    (q_pc = "done" /\ ~work_set_stolen_from_active) =>
        /\ WorkSet = QSequential(q_in)
        /\ WorkSetSize = Len(QSequential(q_in))

\* Two threads both kept particles and a particle was dropped in between.
C7_Witness ==
    /\ q_pc = "done" /\ ~work_set_stolen_from_active
    /\ q_in.NThread >= 2
    /\ Len(thrqueue[0]) >= 1 /\ Len(thrqueue[1]) >= 1
    /\ WorkSetSize < QSize(q_in)

\* ev_begin calls treewalk_build_queue(tw, active_set, size, 0).
FromEvBegin == ~q_in.may_have_garbage

QueueHasGarbage == \E k \in 1 .. Len(WorkSet) : WorkSet[k] \in q_in.garbage

\* C8 as stated: the queue ev_begin builds never contains a garbage
\* particle, for any active set and with or without a haswork filter.
C8_Original_NoGarbageTarget ==
    (q_pc = "done" /\ FromEvBegin) => ~QueueHasGarbage

\* C8 amended: the queue ev_begin builds contains no garbage particle when a
\* haswork filter is supplied; without one it is the caller's active set
\* verbatim, garbage included.
C8_NoGarbageTargetWithHaswork ==
    (q_pc = "done" /\ FromEvBegin) =>
        /\ ~q_in.haswork_null => ~QueueHasGarbage
        /\ q_in.haswork_null => (WorkSet = q_in.active /\ work_set_stolen_from_active)

\* A garbage particle that haswork accepts was in the active set, and the
\* queue built for ev_begin is not empty.
C8_Witness ==
    /\ q_pc = "done" /\ FromEvBegin /\ ~q_in.haswork_null
    /\ \E k \in 1 .. Len(q_in.active) :
          q_in.active[k] \in q_in.garbage \cap q_in.haswork
    /\ WorkSetSize >= 1

\* C9: neither visitor ever invokes the kernel with iter.other naming a
\* particle whose IsGarbage flag is set, even when a leaf lists it.
C9_NoGarbageNeighbour ==
    v_pc = "returned" =>
        \A k \in 1 .. Len(v_out.calls) :
            v_out.calls[k].other >= 0 => v_out.calls[k].other \notin v_in.garbage

\* The garbage particles a walk's leaves handed to the candidate test.
GarbageCandidates ==
    {i \in v_in.garbage : \E k \in 1 .. Len(v_out.visited) :
        LET n == Nodes(v_in.task, v_in.owner, v_in.Hsml)[v_out.visited[k]]
        IN  n.ChildType = PARTICLE_NODE_TYPE /\ \E j \in 1 .. n.noccupied : n.suns[j] = i}

\* A walk opened a leaf that lists a garbage particle within the search
\* radius and of a masked type, and the kernel was called on a neighbour.
C9_Witness ==
    /\ v_pc = "returned" /\ v_out.fatal = NoFatal
    /\ v_in.mode # TREEWALK_TOPTREE
    /\ \E i \in GarbageCandidates :
          /\ v_in.Type[i] \in v_in.mask
          /\ LET dx == NEAREST(Pos[v_in.particle][1] - Pos[i][1], tree.BoxSize)
             IN  dx * dx <= v_in.Hsml[v_in.particle] * v_in.Hsml[v_in.particle]
    /\ \E k \in 1 .. Len(v_out.calls) : v_out.calls[k].other >= 0

\* ------------------------------------------------- reference computations
\* Every task has left the retry loop.
AllDone == \A p \in Tasks : pc[p] = "done"

\* Some TopTreePhase pass of the run raised BufferFullFlag.
Overflowed == \E n \in 1 .. Len(flaghist) : flaghist[n] # {}

\* The export list of target i with a slice that cannot overflow: the
\* entries of one complete top-tree walk.
CompleteExportList(p, i) ==
    LET v == Visit("ngbiter", Nodes(p, r_in.owner, r_in.Hsml), r_in.owner, RunP(r_in),
                   treewalk_init_query(RunP(r_in), RunKernel(r_in), i, <<>>),
                   VisitLv(TREEWALK_TOPTREE, i), VisitTable)
    IN  {v.table[k] : k \in 0 .. v.lv.Nexport - 1}

\* The walk of target i on task, from NodeList (<<>>: from the root).
ReferenceWalk(task, owner, mode, i, NodeList) ==
    Neighbours(Visit("ngbiter", Nodes(task, owner, r_in.Hsml), owner, RunP(r_in),
                     treewalk_init_query(RunP(r_in), RunKernel(r_in), i, NodeList),
                     VisitLv(mode, IF mode = TREEWALK_GHOSTS THEN -1 ELSE i),
                     VisitTable).calls)

\* The reduce calls of target i of task p in a run that never overflows.
UnboundedReductions(p, i) ==
    { [place |-> i, mode |-> TREEWALK_PRIMARY, Task |-> p,
       NodeList |-> <<tree.firstnode, -1>>, ID |-> i,
       ngb |-> ReferenceWalk(p, r_in.owner, TREEWALK_PRIMARY, i, <<>>)] }
    \cup
    { [place |-> i, mode |-> TREEWALK_GHOSTS, Task |-> e.Task, NodeList |-> e.NodeList,
       ID |-> i,
       ngb |-> ReferenceWalk(e.Task, r_in.owner, TREEWALK_GHOSTS, i, e.NodeList)] :
      e \in CompleteExportList(p, i) }

\* How often tw->reduce was called with r on task p.
ReduceCount(p, r) == Cardinality({n \in 1 .. Len(redlog[p]) : redlog[p][n] = r})

\* The reduce calls task p made for target i.
ReductionsOf(p, i) == {redlog[p][n] : n \in {m \in 1 .. Len(redlog[p]) : redlog[p][m].place = i}}

\* C1: a run whose TopTreePhase overflowed ends with the same multiset of
\* PRIMARY and GHOSTS reduce calls per target, from the same queries, as a
\* run of the same workload that never overflows.
C1_OverflowSameReductions ==
    (AllDone /\ Overflowed) =>
        \A p \in Tasks : \A i \in LocalParticles(p, r_in.owner) :
            /\ ReductionsOf(p, i) = UnboundedReductions(p, i)
            /\ \A r \in ReductionsOf(p, i) : ReduceCount(p, r) = 1

\* C2: reduce(target, result, PRIMARY) is called exactly once for every
\* target of the queue, however many sub-iterations the retry loop makes.
C2_PrimaryReducedOnce ==
    AllDone =>
        \A p \in Tasks : \A k \in 1 .. tw[p].WorkSetSize :
            Cardinality({n \in 1 .. Len(redlog[p]) :
                            /\ redlog[p][n].place = tw[p].WorkSet[k]
                            /\ redlog[p][n].mode = TREEWALK_PRIMARY}) = 1

\* The top-leaves an export entry or a GHOSTS reduction stands for.
LeavesOf(NodeList) == {NodeList[1], NodeList[2]} \ {-1}

\* C3: no ghost result is double-counted: over all sub-iterations of a run
\* each (target, remote top-leaf) pair is reduced in GHOSTS mode at most
\* once.
C3_NoGhostDoubleCount ==
    \A p \in Tasks : \A a, b \in 1 .. Len(redlog[p]) :
        ( /\ a < b
          /\ redlog[p][a].mode = TREEWALK_GHOSTS /\ redlog[p][b].mode = TREEWALK_GHOSTS
          /\ redlog[p][a].place = redlog[p][b].place )
        => LeavesOf(redlog[p][a].NodeList) \cap LeavesOf(redlog[p][b].NodeList) = {}

\* The complete export list of target i of task p has been reduced.
FullyReduced(p, i) ==
    \A e \in CompleteExportList(p, i) :
        \E n \in 1 .. Len(redlog[p]) :
            /\ redlog[p][n].mode = TREEWALK_GHOSTS /\ redlog[p][n].place = i
            /\ redlog[p][n].Task = e.Task /\ redlog[p][n].NodeList = e.NodeList

\* The run overflowed, started a second sub-iteration and ended; a target
\* with remote top-leaves had its complete export list exchanged and
\* reduced before the resume.
C3_Witness ==
    /\ AllDone /\ Len(flaghist) >= 2 /\ flaghist[1] # {}
    /\ \E p \in flaghist[1] : \E i \in LocalParticles(p, r_in.owner) :
          CompleteExportList(p, i) # {} /\ FullyReduced(p, i)

\* C4: when the retry loop exits, every target of the queue has had the
\* export entries of a complete top-tree walk retained, exchanged and
\* reduced: none is skipped by the resume after an overflow.
C4_NoTargetSkipped ==
    AllDone =>
        \A p \in Tasks : \A k \in 1 .. tw[p].WorkSetSize : FullyReduced(p, tw[p].WorkSet[k])

\* C5: a task leaves the retry loop after a sub-iteration exactly when no
\* task raised BufferFullFlag in it, so every task runs the same number of
\* sub-iterations: one for every pair of collectives entered.
C5_ExitIffNobodyOverflowed ==
    \A p \in Tasks :
        /\ subiter[p] >= 1 => (pc[p] = "done" <=> flaghist[subiter[p]] = {})
        /\ pc[p] = "done" => subiter[p] = Len(flaghist)

\* A task that did not overflow itself ran a second sub-iteration because
\* another task had overflowed, and all tasks left the loop together.
C5_Witness ==
    /\ AllDone /\ Len(flaghist) = 2
    /\ \E p \in Tasks : p \notin flaghist[1] /\ subiter[p] = 2
    /\ \E q \in Tasks : q \in flaghist[1]

\* The neighbours the kernel is invoked on for target i by one task that
\* holds every top-leaf.
SingleProcessNeighbours(i) ==
    LET ngb == ReferenceWalk(0, [l \in TopLeafNodes |-> 0], TREEWALK_PRIMARY, i, <<>>)
    IN  {ngb[j] : j \in 1 .. Len(ngb)}

\* How often the kernel was invoked on (i, other) in PRIMARY and GHOSTS
\* walks, over all tasks.
KernelCount(i, other) ==
    LET n(p) == Cardinality({j \in 1 .. Len(kcalls[p]) :
                    /\ kcalls[p][j].ID = i /\ kcalls[p][j].other = other
                    /\ kcalls[p][j].mode \in {TREEWALK_PRIMARY, TREEWALK_GHOSTS}})
    IN  SumTo([p \in Tasks |-> n(p)], NTask)

\* C6: for any assignment of top-leaves to tasks the (target, neighbour)
\* pairs the kernel is invoked on are those of a single task holding all
\* particles, each evaluated exactly once.
C6_SamePairsAsSingleProcess ==
    AllDone =>
        \A i \in Particles : \A other \in Particles :
            KernelCount(i, other) = IF other \in SingleProcessNeighbours(i) THEN 1 ELSE 0

\* The retained slice of thread tid of task p: its positions in DataIndexTable.
RetainedSlice(p, tid) ==
    tw[p].Nexport_threadoffset[tid] ..
        tw[p].Nexport_threadoffset[tid] + tw[p].Nexport_thread[tid] - 1

\* C10: at the end of every TopTreePhase pass the entries of one target
\* form one contiguous run within each thread's retained slice.
C10_TargetEntriesContiguous ==
    \A p \in Tasks : pc[p] # "threads" =>
        \A tid \in ThreadIds : \A a, b, c \in RetainedSlice(p, tid) :
            (a < b /\ b < c /\ DataIndexTable[p][a].Index = DataIndexTable[p][c].Index)
            => DataIndexTable[p][b].Index = DataIndexTable[p][a].Index

\* A pass ended with a slice that holds two entries of one target next to
\* the entries of another target.
C10_Witness ==
    \E p \in Tasks : \E tid \in ThreadIds :
        /\ pc[p] = "counts"
        /\ \E a, b, c \in RetainedSlice(p, tid) :
              /\ b = a + 1
              /\ DataIndexTable[p][a].Index = DataIndexTable[p][b].Index
              /\ DataIndexTable[p][c].Index # DataIndexTable[p][a].Index

\* ------------------------------------------------ the export table's shape
\* The entries the thread of the export model retains, in slice order.
XSlice == [k \in 1 .. x_lv.Nexport |-> x_table[x_lv.DataIndexOffset + k - 1]]

\* The positions of the slice that hold an entry of target t.
XRunOf(t) == {k \in 1 .. Len(XSlice) : XSlice[k].Index = t}

\* The remote tasks target t has entries for.
XTasksOf(t) == {XSlice[k].Task : k \in XRunOf(t)}

\* The pseudo-nodes exported without overflow or endrun, in the order met:
\* the target, the owning task and the top-leaf of each.
XExported ==
    LET ok == {n \in 1 .. Len(x_calls) : x_calls[n].rt = 0 /\ x_calls[n].fatal = NoFatal}
        idx == SortedSeq(ok)
    IN  [j \in 1 .. Len(idx) |->
            LET c == x_calls[idx[j]]
                leaf == XTopLeaves(x_in.owner)[c.no - tree.lastnode]
            IN  [target |-> c.target, Task |-> leaf.Task, treenode |-> leaf.treenode]]

RECURSIVE PairedCount(_)
\* Over the maximal stretches of consecutive elements of s with the same
\* target and task, the sum of ceil(stretch length / 2).
PairedCount(s) ==
    IF s = <<>> THEN 0
    ELSE IF Len(s) >= 2 /\ s[1].target = s[2].target /\ s[1].Task = s[2].Task
         THEN 1 + PairedCount(Tail(Tail(s)))
         ELSE 1 + PairedCount(Tail(s))

\* The pseudo-nodes exported for target t.
XExportedFor(t) ==
    FilterSeq(XExported, {c \in {XExported[j] : j \in 1 .. Len(XExported)} : c.target = t})

\* C11 as stated: for every target t the entries with Index = t in a
\* thread's slice number at most 2 x (distinct remote tasks t exports to).
C11_Original_RunAtMostTwicePerTask ==
    \A t \in Particles : Cardinality(XRunOf(t)) <= 2 * Cardinality(XTasksOf(t))

\* C11 amended: for every target t the entries with Index = t in a thread's
\* slice number at most the sum, over the maximal stretches of pseudo-nodes
\* of one task that t's walk met consecutively, of ceil(stretch length / 2).
C11_RunAtMostHalfPerStretch ==
    \A t \in Particles : Cardinality(XRunOf(t)) <= PairedCount(XExportedFor(t))

\* A target holds more than twice as many entries as it has remote tasks.
C11_Witness ==
    \E t \in Particles :
        /\ Cardinality(XRunOf(t)) > 2 * Cardinality(XTasksOf(t))
        /\ Cardinality(XRunOf(t)) = PairedCount(XExportedFor(t))

RECURSIVE Paired(_)
\* The pseudo-nodes of s taken two at a time within each maximal stretch of
\* the same target and task, in the order met; -1 ends an odd stretch.
Paired(s) ==
    IF s = <<>> THEN <<>>
    ELSE IF Len(s) >= 2 /\ s[1].target = s[2].target /\ s[1].Task = s[2].Task
         THEN <<[Task |-> s[1].Task, Index |-> s[1].target,
                 NodeList |-> <<s[1].treenode, s[2].treenode>>]>>
              \o Paired(Tail(Tail(s)))
         ELSE <<[Task |-> s[1].Task, Index |-> s[1].target,
                 NodeList |-> <<s[1].treenode, -1>>]>>
              \o Paired(Tail(s))

\* Positions a .. b of the slice are a maximal run of one (Task, Index).
XMaximalRun(a, b) ==
    /\ a <= b
    /\ \A k \in a .. b : XSlice[k].Task = XSlice[a].Task /\ XSlice[k].Index = XSlice[a].Index
    /\ a > 1 => (XSlice[a - 1].Task # XSlice[a].Task \/ XSlice[a - 1].Index # XSlice[a].Index)
    /\ b < Len(XSlice) =>
          (XSlice[b + 1].Task # XSlice[a].Task \/ XSlice[b + 1].Index # XSlice[a].Index)

\* The top-leaves a run of entries names.
XFilledSlots(a, b) ==
    Cardinality({<<k, j>> \in (a .. b) \X (1 .. NODELISTLENGTH) : XSlice[k].NodeList[j] # -1})

\* C12: every maximal run of consecutive entries with the same (Task,
\* Index) holds ceil(n/2) entries for the n top-leaves exported in it: all
\* entries but possibly the last have both NodeList slots filled, and the
\* slots are filled in the order met, -1 terminating.
C12_CoalescedRuns ==
    /\ XSlice = Paired(XExported)
    /\ \A a, b \in 1 .. Len(XSlice) : XMaximalRun(a, b) =>
          /\ \A k \in a .. b : XSlice[k].NodeList[1] # -1
          /\ \A k \in a .. b - 1 : XSlice[k].NodeList[2] # -1
          /\ 2 * (b - a + 1) \in {XFilledSlots(a, b), XFilledSlots(a, b) + 1}

\* A run of two entries for three top-leaves of one task, after the
\* entries of another target.
C12_Witness ==
    \E a \in 2 .. Len(XSlice) - 1 :
        /\ XMaximalRun(a, a + 1)
        /\ XSlice[a + 1].NodeList[2] = -1
        /\ XSlice[a - 1].Index # XSlice[a].Index

\* The call the step made, when it made one.
XCalled == x_calls' # x_calls

\* C13: treewalk_export_particle coalesces exactly when the current target
\* has produced an entry, the thread's previous entry has the same Task and
\* its second slot is -1, full slice or not; otherwise a full slice gives
\* the overflow code and changes nothing; otherwise the entry {task,
\* target, [treenode, -1]} is appended and both counters go up by one.
C13_ExportCases ==
    [][ (XCalled /\ x_in.mode = TREEWALK_TOPTREE) =>
          LET c == x_calls'[Len(x_calls')]
              leaf == XTopLeaves(x_in.owner)[c.no - tree.lastnode]
              nexp == x_lv.Nexport + x_lv.DataIndexOffset
              produced == \E n \in 1 .. Len(x_calls) :
                              x_calls[n].target = x_lv.target /\ x_calls[n].appended
          IN  IF /\ produced
                 /\ x_table[nexp - 1].Task = leaf.Task
                 /\ x_table[nexp - 1].NodeList[2] = -1
              THEN /\ c.rt = 0 /\ c.fatal = NoFatal
                   /\ x_table' = [x_table EXCEPT ![nexp - 1].NodeList[2] = leaf.treenode]
                   /\ x_lv' = x_lv
              ELSE IF x_lv.Nexport >= x_lv.BunchSize
              THEN c.rt = -1 /\ c.fatal = NoFatal /\ x_table' = x_table /\ x_lv' = x_lv
              ELSE /\ c.rt = 0 /\ c.fatal = NoFatal
                   /\ x_table' = [x_table EXCEPT ![nexp] =
                         [Task |-> leaf.Task, Index |-> x_lv.target,
                          NodeList |-> <<leaf.treenode, -1>>]]
                   /\ x_lv' = [x_lv EXCEPT !.Nexport = @ + 1,
                                            !.NThisParticleExport = @ + 1] ]_vars

\* The last call coalesced into a slice that was already full, after a
\* call of an earlier target had appended.
C13_Witness ==
    /\ x_pc = "walk" /\ x_calls # <<>>
    /\ x_lv.Nexport = x_lv.BunchSize
    /\ LET c == x_calls[Len(x_calls)]
       IN  c.rt = 0 /\ ~c.appended /\ x_calls[1].target # c.target

\* ------------------------------------------------- the walks of a visitor
\* The particle table, the query and the tree of the visitor call drawn.
VP == PTable(v_in.Hsml, v_in.Type, v_in.garbage)
VQuery ==
    treewalk_init_query(VP, [mask |-> v_in.mask, symmetric |-> v_in.symmetric],
                        v_in.particle, v_in.NodeList)
VNodes == Nodes(v_in.task, v_in.owner, v_in.Hsml)

\* The nodes of a kind the walk met and did not cull.
VOpened(ChildType) ==
    {no \in {v_out.visited[k] : k \in 1 .. Len(v_out.visited)} :
        /\ VNodes[no].ChildType = ChildType
        /\ cull_node(VQuery, KernelInit(VQuery), VNodes[no], tree.BoxSize) = 1}

\* The pseudo-particles of the tree.
PseudoParticles == {PseudoOf(l) : l \in TopLeafNodes}

\* C14: export entries are created by TOPTREE walks only.  A PRIMARY walk
\* passes every pseudo-node without exporting, a GHOSTS walk that opens a
\* pseudo-node ends in the endrun, and treewalk_export_particle called with
\* the lv of a PRIMARY or GHOSTS walk ends in the endrun and leaves the
\* table alone: such a walk adds no entry and never returns the overflow.
C14_ExportOnlyFromToptree ==
    (v_pc = "returned" /\ v_in.mode # TREEWALK_TOPTREE) =>
        /\ v_out.table = VisitTable
        /\ v_out.lv.Nexport = 0 /\ v_out.lv.NThisParticleExport = 0
        /\ v_out.rt >= 0
        /\ v_in.mode = TREEWALK_PRIMARY =>
              v_out.fatal \in {NoFatal, "tree mask", "symmetric without hmax"}
        /\ v_in.mode = TREEWALK_GHOSTS =>
              (VOpened(PSEUDO_NODE_TYPE) # {} <=> v_out.fatal = "secondary found pseudo")
        /\ \A no \in PseudoParticles :
              LET e == treewalk_export_particle(v_out.lv, no, v_out.table,
                                               TopLeaves(v_in.owner))
              IN  e.fatal # NoFatal /\ e.table = v_out.table /\ e.lv = v_out.lv

\* A PRIMARY walk met a pseudo-node within reach, passed it and went on to
\* call the kernel on a neighbour.
C14_Witness ==
    /\ v_pc = "returned" /\ v_in.mode = TREEWALK_PRIMARY /\ v_out.fatal = NoFatal
    /\ VOpened(PSEUDO_NODE_TYPE) # {}
    /\ \E k \in 1 .. Len(v_out.calls) : v_out.calls[k].other >= 0

\* A GHOSTS walk started at a pseudo-node within reach.
GhostsOpenedPseudo ==
    /\ v_pc = "returned" /\ v_in.mode = TREEWALK_GHOSTS
    /\ VOpened(PSEUDO_NODE_TYPE) # {}

\* ------------------------------------------------- results paired by slot
\* The slots of the send buffer the retained entries of task p take.
ExportSlots(p) ==
    LET scan == ExportScan(p)
    IN  [j \in 1 .. Len(scan) |-> BufPos(p, scan, j)]

\* C15: the result reduced into the particle of a retained export entry is
\* the one the entry's task computed from the query built from that entry
\* (its target, its NodeList); the entries take distinct slots that fill
\* 0 .. Nexport-1 of the send buffer.
C15_ResultsPairedBySlot ==
    \A p \in Tasks :
        /\ pc[p] \in {"send", "ev_primary", "ev_secondary", "reduce"} =>
              LET slots == ExportSlots(p)
              IN  /\ Len(slots) = counts[p].Nexport
                  /\ {slots[j] : j \in 1 .. Len(slots)} = 0 .. counts[p].Nexport - 1
        /\ pc[p] = "looptest" =>
              \A n \in 1 .. Len(redlog[p]) :
                  redlog[p][n].mode = TREEWALK_GHOSTS =>
                      /\ redlog[p][n].ID = redlog[p][n].place
                      /\ redlog[p][n].ngb =
                            ReferenceWalk(redlog[p][n].Task, r_in.owner, TREEWALK_GHOSTS,
                                          redlog[p][n].place, redlog[p][n].NodeList)

\* A task whose two threads both retained entries, for two remote tasks
\* and two targets, has reduced the results, and one of them named a
\* neighbour.
C15_Witness ==
    \E p \in Tasks :
        /\ pc[p] = "looptest" /\ tw[p].NThread = 2
        /\ tw[p].Nexport_thread[0] >= 1 /\ tw[p].Nexport_thread[1] >= 1
        /\ \E a, b \in 1 .. Len(redlog[p]) :
              /\ redlog[p][a].mode = TREEWALK_GHOSTS /\ redlog[p][b].mode = TREEWALK_GHOSTS
              /\ redlog[p][a].Task # redlog[p][b].Task
              /\ redlog[p][a].place # redlog[p][b].place
              /\ redlog[p][a].ngb # <<>>

\* ------------------------------------------------------ refusing to start
\* The configuration errors C16 names, read off the arguments: a BunchSize
\* clamped to the send-buffer cap is below 100 when it was below 100 before
\* the clamp or when 100 queries exceed the cap.
ConfigError(in) ==
    \/ ~in.tree_allocated
    \/ in.query_type_elsize % 8 # 0
    \/ in.result_type_elsize % 8 # 0
    \/ in.F < 4096 * 10 \/ (in.F = 4096 * 10 /\ ~in.remainder)
    \/ in.F - 4096 * 10 < 100
    \/ 100 * (in.query_type_elsize \div 8) > maxbuf_words

\* C16: on a freed tree, an element size that is not a multiple of 8, free
\* memory within the reserved headroom or a clamped BunchSize below 100,
\* treewalk_run ends in the endrun before DataIndexTable is allocated and
\* before preprocess or a phase of the retry loop runs.
C16_RefusesToStart ==
    (b_pc \notin {"idle", "treewalk_run", "ev_begin"} /\ ConfigError(b_in)) =>
        /\ b_pc = "endrun"
        /\ ~b_tw.DataIndexTable
        /\ \A n \in 1 .. Len(b_log) :
              b_log[n] \notin {"preprocess", "ev_toptree", "ev_primary", "ev_secondary"}

\* ev_begin ended the run on a BunchSize that the clamp brought below 100,
\* with aligned element sizes and enough free memory.
C16_Witness ==
    /\ b_pc = "endrun" /\ b_in.tree_allocated
    /\ b_in.query_type_elsize % 8 = 0 /\ b_in.result_type_elsize % 8 = 0
    /\ ~NotEnoughMemory(b_in)
    /\ b_in.F - 4096 * 10 >= 100
    /\ b_tw.BunchSize < 100


\* The slices of DataIndexTable the threads of task p walk with.
Slices(p) ==
    { thr[p][t].lv.DataIndexOffset .. thr[p][t].lv.DataIndexOffset + thr[p][t].lv.BunchSize - 1 :
        t \in ThreadIds }

\* C17: in a parallel region thread tid walks with the slice that starts at
\* tid * localbunch, localbunch = floor(BunchSize / NThread); every thread
\* but the last has capacity localbunch, the last thread has the remainder
\* BunchSize - (NThread - 1) * localbunch, and the slices together cover
\* every entry of DataIndexTable.
C17_LastThreadGetsRemainder ==
    \A p \in Tasks :
        pc[p] = "threads" =>
            LET localbunch == tw[p].BunchSize \div tw[p].NThread
            IN  /\ \A t \in ThreadIds :
                     /\ thr[p][t].lv.DataIndexOffset = t * localbunch
                     /\ thr[p][t].lv.BunchSize =
                            IF t = tw[p].NThread - 1
                            THEN tw[p].BunchSize - (tw[p].NThread - 1) * localbunch
                            ELSE localbunch
                /\ UNION Slices(p) = 0 .. tw[p].BunchSize - 1


\* ------------------------------------------------- the kernel's calls
\* The displacement from particle i to the query, nearest image, and its
\* square.
VDisp(i) == [d \in 1 .. 3 |-> NEAREST(VQuery.Pos[d] - Pos[i][d], tree.BoxSize)]
VR2(i) == VDisp(i)[1] * VDisp(i)[1] + VDisp(i)[2] * VDisp(i)[2] + VDisp(i)[3] * VDisp(i)[3]

\* The particles the leaves opened by the walk list.
VListed ==
    {i \in Particles : \E no \in VOpened(PARTICLE_NODE_TYPE) :
        \E j \in 1 .. VNodes[no].noccupied : VNodes[no].suns[j] = i}

\* The search radius for candidate i: treewalk_visit_ngbiter widens a
\* symmetric query to the candidate's Hsml.
VRadius(i) ==
    IF v_in.variant = "ngbiter" /\ v_in.symmetric
    THEN Max(v_in.Hsml[i], VQuery.Hsml) ELSE VQuery.Hsml

\* The accepted neighbours of the walk: listed, not garbage, of a masked
\* type and within the radius.
VAccepted ==
    {i \in VListed :
        /\ i \notin v_in.garbage
        /\ v_in.Type[i] \in v_in.mask
        /\ VR2(i) <= VRadius(i) * VRadius(i)}

\* C18: a visitor invokes the kernel once with other = -1, before every
\* call with other >= 0; a walk that completes then invokes it exactly once
\* for every accepted neighbour (none in a TOPTREE walk), with other, r, r2
\* and dist set for that neighbour.
C18_KickStartThenOncePerNeighbour ==
    v_pc = "returned" =>
        LET calls == v_out.calls
        IN  /\ Len(calls) >= 1 /\ calls[1].other = -1
            /\ \A k \in 2 .. Len(calls) :
                  /\ calls[k].other \in Particles
                  /\ calls[k].dist = VDisp(calls[k].other)
                  /\ calls[k].r2 = VR2(calls[k].other)
                  /\ calls[k].r = sqrt(VR2(calls[k].other))
                  /\ \A j \in 2 .. Len(calls) : calls[j].other = calls[k].other => j = k
            /\ (v_out.fatal = NoFatal /\ v_out.rt = 0) =>
                  {calls[k].other : k \in 2 .. Len(calls)} =
                      IF v_in.mode = TREEWALK_TOPTREE THEN {} ELSE VAccepted

\* A walk that completed called the kernel on two neighbours and passed
\* over a listed particle of a masked type that lies outside the radius.
C18_Witness ==
    /\ v_pc = "returned" /\ v_out.fatal = NoFatal /\ v_out.rt = 0
    /\ Len(v_out.calls) >= 3
    /\ v_out.calls[1].other = -1
    /\ \E i \in VListed \ VAccepted : i \notin v_in.garbage /\ v_in.Type[i] \in v_in.mask


\* ------------------------------------------------- the entry checks
\* The kernel's mask is not within the tree's mask, or the kernel asks for
\* a symmetric walk of a tree whose hmax has not been computed.
VBadTree ==
    \/ ~(v_in.mask \subseteq v_in.tree.mask)
    \/ v_in.symmetric /\ ~v_in.tree.hmax_computed_flag

\* C19: a visitor of either variant entered with a mask the tree does not
\* cover, or with a symmetric kernel and a tree without hmax, ends in a
\* fatal error before it walks any node.
C19_EntryChecksBothVisitors ==
    (v_pc = "returned" /\ VBadTree) =>
        /\ v_out.fatal \in {"tree mask", "symmetric without hmax"}
        /\ v_out.visited = <<>>
        /\ v_out.calls = <<InitCall>>


\* ------------------------------------------------- symmetric round trip
\* The particles the kernel is invoked on by the symmetric PRIMARY walk of
\* treewalk_visit_ngbiter for local particle b, on the tree and the
\* particle table of the call drawn.
SymmetricReach(b) ==
    LET I == treewalk_init_query(VP, [mask |-> v_in.mask, symmetric |-> TRUE], b, <<>>)
        w == Visit("ngbiter", VNodes, v_in.owner, VP, I,
                   VisitLv(TREEWALK_PRIMARY, b), VisitTable)
    IN  {w.calls[k].other : k \in 2 .. Len(w.calls)}

\* The call drawn is a symmetric walk of treewalk_visit_ngbiter for a
\* local particle that is not garbage and has a masked type, and it ran.
VSymmetricWalk ==
    /\ v_pc = "returned" /\ v_out.fatal = NoFatal
    /\ v_in.variant = "ngbiter" /\ v_in.symmetric /\ v_in.mode = TREEWALK_PRIMARY
    /\ v_in.particle \notin v_in.garbage
    /\ v_in.Type[v_in.particle] \in v_in.mask

NeighbourCount(calls) == Cardinality({k \in 1 .. Len(calls) : calls[k].other >= 0})

\* The asymmetric walk of the scene with every Hsml 0.2 has returned.
SceneS1 ==
    /\ s_pc = "returned" /\ ~s_in.symmetric
    /\ s_in.Hsml = [i \in Particles |-> 4]

\* C21 as stated: with x = 0, 0.1, 0.5, 0.9 in a box of side 1 and every
\* Hsml 0.2, an asymmetric walk invokes the kernel with other >= 0 exactly
\* 2, 2, 1 and 2 times for the four targets.
C21_Original_Counts2212 ==
    SceneS1 => NeighbourCount(s_out.calls) = <<2, 2, 1, 2>>[s_in.particle + 1]

\* C21 amended: the counts are 3, 3, 1 and 3: the target itself is a
\* candidate at distance 0 and is passed to the kernel like any other.
C21_Counts3313 ==
    SceneS1 =>
        /\ s_out.fatal = NoFatal /\ s_out.rt = 0
        /\ NeighbourCount(s_out.calls) = <<3, 3, 1, 3>>[s_in.particle + 1]
        /\ \E k \in 2 .. Len(s_out.calls) :
              s_out.calls[k].other = s_in.particle /\ s_out.calls[k].r2 = 0

\* The walk for the target at x = 0.1 on the split tree called the kernel
\* on the particle at x = 0.9, at distance 0.2 across the boundary.
C21_Witness ==
    /\ SceneS1 /\ s_in.shape = "split" /\ s_in.particle = 1
    /\ \E k \in 2 .. Len(s_out.calls) :
          s_out.calls[k].other = 3 /\ s_out.calls[k].dist = <<4, 0, 0>>


\* ------------------------------------------------- the acceptance test
\* The radius the acceptance test is specified with: iter.Hsml, widened to
\* the candidate's Hsml for a symmetric query.
SpecifiedRadius(b) ==
    IF v_in.symmetric THEN Max(v_in.Hsml[b], VQuery.Hsml) ELSE VQuery.Hsml

\* C22: in both visitor variants a candidate b reached by the descent is
\* passed to the kernel if and only if b is not garbage, b's type is in
\* iter.mask and its periodic squared distance r2 from the query satisfies
\* r2 <= h * h, with h = iter.Hsml for a non-symmetric query and
\* h = max(P[b].Hsml, iter.Hsml) for a symmetric one.
C22_AcceptanceBothVariants ==
    (/\ v_pc = "returned" /\ v_out.fatal = NoFatal /\ v_out.rt = 0
     /\ v_in.mode # TREEWALK_TOPTREE) =>
        {v_out.calls[k].other : k \in 2 .. Len(v_out.calls)} =
            {b \in VListed :
                /\ b \notin v_in.garbage
                /\ v_in.Type[b] \in v_in.mask
                /\ VR2(b) <= SpecifiedRadius(b) * SpecifiedRadius(b)}


\* ------------------------------------------------- the smoothing-length loop
\* The redo lists of task p one after the other, in thread order.
RedoInThreadOrder(p) == Concat([t \in 1 .. h_in.NumThreads |-> h_st[p].NPRedo[t - 1]])

\* The redo counts of all tasks added up.
RedoTotal == SumTo([p \in Tasks |-> Len(RedoInThreadOrder(p))], MaxTask)

\* What holds of every state of the loop.
HsmlLoopState ==
    \A p \in Tasks :
        LET st == h_st[p]
            runs == h_log[p].runs
        IN  /\ ~h_in.update_hsml =>
                  /\ st.pc \in {"run", "done"}
                  /\ runs = IF st.pc = "done" THEN 1 ELSE 0
            /\ (h_in.update_hsml /\ st.pc = "done") =>
                  /\ st.ntot = 0 /\ RedoTotal = 0
                  /\ \A q \in Tasks : h_st[q].pc = "done" /\ h_log[q].runs = runs
            /\ (h_in.update_hsml /\ st.pc = "run" /\ runs >= 1) =>
                  /\ st.ntot > 0
                  /\ st.Niteration <= MAXITER
            /\ st.pc = "endrun" =>
                  /\ h_pc = "endrun" /\ st.ntot > 0 /\ st.Niteration > MAXITER
                  /\ \A q \in Tasks : h_st[q].pc = "endrun" /\ h_log[q].runs = runs

\* What holds of every step of the loop: a later pass walks the redo lists
\* of the pass before, and the all-reduce decides for every task at once.
HsmlLoopStep ==
    /\ \A p \in Tasks :
          (h_log'[p].runs = h_log[p].runs + 1 /\ h_log[p].runs >= 1) =>
              h_log'[p].CurQueue = RedoInThreadOrder(p)
    /\ (\A p \in Tasks : h_st[p].pc = "allreduce" /\ h_st'[p].pc # "allreduce") =>
          /\ \A p \in Tasks : h_st'[p].ntot = RedoTotal
          /\ (\A p \in Tasks : h_st'[p].pc = "done") <=> RedoTotal = 0
          /\ (\A p \in Tasks : h_st'[p].pc = "endrun") <=>
                (RedoTotal > 0 /\ \E p \in Tasks : h_st[p].Niteration > MAXITER)
          /\ (\A p \in Tasks : h_st'[p].pc = "run") <=>
                (RedoTotal > 0 /\ \A p \in Tasks : h_st[p].Niteration <= MAXITER)

\* C23: with update_hsml set the loop repeats treewalk_run, each later pass
\* walking exactly the redo lists of the pass before, concatenated in
\* thread order; it stops exactly when the all-reduced redo total is zero,
\* every task after the same number of passes; if particles remain once
\* Niteration exceeds MAXITER the job ends in endrun; with update_hsml = 0
\* there is exactly one treewalk_run.
C23_HsmlLoop == []HsmlLoopState /\ [][HsmlLoopStep]_vars

\* The loop ended after three or more passes, and the last pass of some
\* task walked its two particles in the order the thread lists gave them.
C23_Witness ==
    /\ h_pc = "loop" /\ h_in.update_hsml
    /\ \A p \in Tasks : h_st[p].pc = "done"
    /\ \E p \in Tasks : h_log[p].runs >= 3 /\ h_log[p].CurQueue = <<1, 0>>


\* ------------------------------------------------- the bracket
\* a <= b for two computed radii.
LessEq(a, b) == a # NaN /\ b # NaN /\ a.num * b.den <= b.num * a.den

\* The trials of the call with a count below and above the desired one.
TrialsBelow == {j \in 1 .. n_in.maxcmpt : n_in.numNgb[j] < n_in.desnumngb}
TrialsAbove == {j \in 1 .. n_in.maxcmpt : n_in.numNgb[j] > n_in.desnumngb}

\* C24: the radius ngb_narrow_down returns satisfies left <= new_hsml <=
\* right for the updated bounds; when a trial below and a trial above the
\* desired count exist it lies strictly between the radii of the closest
\* such trials; when the bracket is one-sided it is at most 4 times the
\* radius of the closest trial.
C24_MonotoneBracket ==
    n_pc = "returned" =>
        /\ LessEq(Radius(n_out.left), n_out.hsml)
        /\ LessEq(n_out.hsml, Radius(n_out.right))
        /\ IF TrialsBelow # {} /\ TrialsAbove # {}
           THEN /\ Less(Radius(n_in.radius[SetMax(TrialsBelow)]), n_out.hsml)
                /\ Less(n_out.hsml, Radius(n_in.radius[SetMin(TrialsAbove)]))
           ELSE LessEq(n_out.hsml, Radius(4 * n_in.radius[n_out.closeidx + 1]))


\* ------------------------------------------------- schedules
\* The reduce calls task p made for target i, in order: the mode, the
\* contributing task and the NodeList of each.
ReduceSequence(p, i) ==
    LET ForTarget(r) == r.place = i
        calls == SelectSeq(redlog[p], ForTarget)
    IN  [n \in 1 .. Len(calls) |->
            [mode |-> calls[n].mode, Task |-> calls[n].Task, NodeList |-> calls[n].NodeList]]

\* The sequence no schedule can change: the PRIMARY reduction, then the
\* GHOSTS reductions in the order of the target's export entries.
ScheduleFreeSequence(p, i) ==
    LET v == Visit("ngbiter", Nodes(p, r_in.owner, r_in.Hsml), r_in.owner, RunP(r_in),
                   treewalk_init_query(RunP(r_in), RunKernel(r_in), i, <<>>),
                   VisitLv(TREEWALK_TOPTREE, i), VisitTable)
    IN  <<[mode |-> TREEWALK_PRIMARY, Task |-> p, NodeList |-> <<tree.firstnode, -1>>]>>
        \o [k \in 1 .. v.lv.Nexport |->
              [mode |-> TREEWALK_GHOSTS, Task |-> v.table[k - 1].Task,
               NodeList |-> v.table[k - 1].NodeList]]

\* C25: whatever the thread schedule, a run gives every target the same
\* sequence of reduce calls: the PRIMARY one and the GHOSTS ones in the
\* order of the target's export entries, whichever thread walked the
\* target and however the chunks were interleaved.
C25_ScheduleIndependent ==
    AllDone =>
        \A p \in Tasks : \A k \in 1 .. tw[p].WorkSetSize :
            ReduceSequence(p, tw[p].WorkSet[k]) = ScheduleFreeSequence(p, tw[p].WorkSet[k])


\* The minimum over the threads of task p of the thread's lastSucceeded.
MinLastSucceeded(p) == SetMin({thr[p][t].lastSucceeded : t \in ThreadIds})

\* The end of the parallel region of task p after some thread overflowed.
JoinAfterOverflow(p) ==
    /\ pc[p] = "threads" /\ pc'[p] = "counts"
    /\ \E t \in ThreadIds : thr[p][t].BufferFullFlag = 1

\* C26: after a TopTreePhase pass in which some thread overflowed,
\* tw->WorkSetStart is 1 + the minimum over the threads of lastSucceeded
\* (the highest queue index the thread completed, or WorkSetStart - 1),
\* and the next pass starts claiming chunks at WorkSetStart.
C26_ResumeAtMinLastSucceeded ==
    [][\A p \in Tasks :
          /\ JoinAfterOverflow(p) => tw'[p].WorkSetStart = 1 + MinLastSucceeded(p)
          /\ (pc[p] = "ev_toptree" /\ pc'[p] = "threads")
                 => currentIndex'[p] = tw[p].WorkSetStart]_vars


\* Thread tid of task p leaves the parallel region with its slice full.
LeavesFull(p, tid) ==
    /\ pc[p] = "threads" /\ tid \in DOMAIN thr[p] /\ tid \in DOMAIN thr'[p]
    /\ thr[p][tid].at = "after" /\ thr'[p][tid].at = "done"
    /\ thr'[p][tid].BufferFullFlag = 1

\* The positions of the slice of thread tid of task p that hold an entry
\* of particle i.
SliceEntriesOf(p, tid, i) ==
    { n \in 0 .. thr[p][tid].lv.Nexport - 1 :
        DataIndexTable[p][thr[p][tid].lv.DataIndexOffset + n].Index = i }

\* C27: when a thread leaves TopTreePhase because its slice is full, every
\* target it recorded as succeeded (queue index <= its lastSucceeded) keeps
\* all of its export entries in the retained region of the slice.
C27_SucceededTargetsKeepEntries ==
    [][\A p \in Tasks : \A tid \in 0 .. MaxThread - 1 :
          LeavesFull(p, tid) =>
              \A j \in 0 .. thr[p][tid].lastSucceeded :
                  j < tw[p].WorkSetSize =>
                      \A n \in SliceEntriesOf(p, tid, tw[p].WorkSet[j + 1]) :
                          n < thr'[p][tid].lv.Nexport]_vars


\* The queue indices of a claimed chunk.
ChunkIndices(e) == e.chnk .. e.end - 1

\* The positions in c_log of two successive chunks of one thread.
SuccessiveChunks ==
    { ab \in (1 .. Len(c_log)) \X (1 .. Len(c_log)) :
        /\ ab[1] < ab[2] /\ c_log[ab[1]].tid = c_log[ab[2]].tid
        /\ \A m \in ab[1] + 1 .. ab[2] - 1 : c_log[m].tid # c_log[ab[1]].tid }

\* The chunk size a thread starts with, as the specification gives it.
FirstChunkSize ==
    LET q == c_in.WorkSetSize \div (4 * c_in.NThread)
    IN  IF q < 1 THEN 1 ELSE IF q > 100 THEN 100 ELSE q

\* C28: in one TopTreePhase pass the chunks claimed through the fetch-and-add
\* are pairwise disjoint and, when no thread overflows, cover
\* [WorkSetStart, WorkSetSize) exactly; each thread's chunk size starts at
\* max(1, min(100, WorkSetSize / (4 NThread))), only halves, never drops
\* below 1, and a thread's successive chunks start at strictly increasing
\* indices.
C28_ChunksPartitionQueue ==
    c_pc # "idle" =>
        /\ \A a, b \in 1 .. Len(c_log) :
               a # b => ChunkIndices(c_log[a]) \cap ChunkIndices(c_log[b]) = {}
        /\ (c_pc = "joined" /\ \A t \in ChunkThreads : c_thr[t].BufferFullFlag = 0)
               => UNION {ChunkIndices(c_log[a]) : a \in 1 .. Len(c_log)}
                      = c_in.WorkSetStart .. c_in.WorkSetSize - 1
        /\ \A a \in 1 .. Len(c_log) :
               /\ c_log[a].chnksz >= 1
               /\ (\A m \in 1 .. a - 1 : c_log[m].tid # c_log[a].tid)
                      => c_log[a].chnksz = FirstChunkSize
        /\ \A ab \in SuccessiveChunks :
               /\ c_log[ab[2]].chnksz \in {c_log[ab[1]].chnksz, c_log[ab[1]].chnksz \div 2}
               /\ c_log[ab[2]].chnk > c_log[ab[1]].chnk

\* Two threads finished a pass without overflow in which both walked part
\* of the queue and one of them halved its chunk size.
C28_Witness ==
    /\ c_pc = "joined" /\ c_in.NThread = 2 /\ c_in.WorkSetStart = 0
    /\ \A t \in ChunkThreads : c_thr[t].BufferFullFlag = 0
    /\ \A t \in ChunkThreads : \E a \in 1 .. Len(c_log) :
           c_log[a].tid = t /\ ChunkIndices(c_log[a]) # {}
    /\ \E ab \in SuccessiveChunks : c_log[ab[2]].chnksz < c_log[ab[1]].chnksz


\* The slice of DataIndexTable thread tid of task p walks with.
SliceOf(p, tid) ==
    thr[p][tid].lv.DataIndexOffset
        .. thr[p][tid].lv.DataIndexOffset + thr[p][tid].lv.BunchSize - 1

\* The entries of task p's DataIndexTable the step writes.
Written(p) == { n \in DOMAIN DataIndexTable[p] : DataIndexTable'[p][n] # DataIndexTable[p][n] }

\* In TopTreePhase the slices are pairwise disjoint and inside the table.
SlicesApart ==
    \A p \in Tasks :
        pc[p] = "threads" =>
            \A t1, t2 \in ThreadIds :
                /\ SliceOf(p, t1) \subseteq 0 .. tw[p].BunchSize - 1
                /\ t1 # t2 => SliceOf(p, t1) \cap SliceOf(p, t2) = {}

\* A step of TopTreePhase that writes DataIndexTable is the walk of one
\* thread and writes inside that thread's slice.
WritesOwnSlice ==
    \A p \in Tasks :
        (pc[p] = "threads" /\ Written(p) # {}) =>
            \E tid \in ThreadIds :
                /\ thr[p][tid].at = "walk" /\ thr'[p][tid] # thr[p][tid]
                /\ Written(p) \subseteq SliceOf(p, tid)

\* C29: during TopTreePhase every write of a thread to DataIndexTable
\* (append or coalesce) falls inside its own slice [DataIndexOffset,
\* DataIndexOffset + lv->BunchSize); the slices of different threads are
\* pairwise disjoint and lie within [0, tw->BunchSize).
C29_WritesStayInOwnSlice == []SlicesApart /\ [][WritesOwnSlice]_vars

\* Two threads of one task have each written to their slices, one of them
\* an entry with two nodes.
C29_Witness ==
    \E p \in Tasks :
        /\ pc[p] = "threads" /\ tw[p].NThread = 2
        /\ \A t \in ThreadIds : thr[p][t].lv.Nexport >= 1
        /\ \E t \in ThreadIds :
               DataIndexTable[p][thr[p][t].lv.DataIndexOffset].NodeList[2] >= 0


\* The nodes of the subtree of node a.
SubtreeNodes(a) == {m \in DOMAIN VNodes : Contained(m) \subseteq Contained(a)}

\* The start nodes of the query drawn.
VStartNodes == {v_in.NodeList[k] : k \in 1 .. Len(v_in.NodeList)} \ {-1}

\* The kernel calls on a neighbour among calls.
RealCalls(calls) == SelectSeq(calls, LAMBDA c : c.other >= 0)

\* The walk of exported particles the call drawn makes from start node a
\* alone.
GhostWalkOf(a) ==
    Visit(v_in.variant, VNodes, v_in.owner, VP, [VQuery EXCEPT !.NodeList = <<a, -1>>],
          [VisitLv(TREEWALK_GHOSTS, -1) EXCEPT !.tree = v_in.tree], VisitTable)

\* C30: a GHOSTS walk started at a top-level node visits only that node and
\* nodes of its subtree, also when the start node is culled, so the
\* particles it collects all belong to the start node; the two NodeList
\* entries of a query are walked independently, one after the other.
C30_GhostsStayInBranch ==
    (v_pc = "returned" /\ v_in.mode = TREEWALK_GHOSTS) =>
        /\ \A k \in 1 .. Len(v_out.visited) :
               \E a \in VStartNodes : v_out.visited[k] \in SubtreeNodes(a)
        /\ \A k \in 1 .. Len(v_out.calls) :
               v_out.calls[k].other >= 0 =>
                   \E a \in VStartNodes : v_out.calls[k].other \in Contained(a)
        /\ v_out.fatal = NoFatal =>
               LET a == v_in.NodeList[1]
                   b == v_in.NodeList[2]
               IN  IF b < 0
                   THEN v_out.visited[1] = a
                   ELSE /\ v_out.visited = GhostWalkOf(a).visited \o GhostWalkOf(b).visited
                        /\ RealCalls(v_out.calls) = RealCalls(GhostWalkOf(a).calls)
                                                      \o RealCalls(GhostWalkOf(b).calls)

\* A query with two start nodes returned: the first start node was culled
\* and the walk left it at once, the second gave a neighbour.
C30_Witness ==
    /\ v_pc = "returned" /\ v_in.mode = TREEWALK_GHOSTS /\ v_out.fatal = NoFatal
    /\ v_in.NodeList[2] >= 0
    /\ GhostWalkOf(v_in.NodeList[1]).visited = <<v_in.NodeList[1]>>
    /\ cull_node(VQuery, KernelInit(VQuery), VNodes[v_in.NodeList[1]], tree.BoxSize) = 0
    /\ Len(RealCalls(GhostWalkOf(v_in.NodeList[2]).calls)) >= 1


\* The thread state the call drawn was entered with.
VLv ==
    [VisitLv(v_in.mode, IF v_in.mode = TREEWALK_GHOSTS THEN -1 ELSE v_in.particle)
        EXCEPT !.tree = v_in.tree]

\* The nodes strictly below a top-level node that is not internal.
BelowTopTree ==
    UNION { SubtreeNodes(l) \ {l} : l \in {m \in DOMAIN VNodes : TopTreeLeaf(VNodes[m])} }

Posted(buffer) == buffer.state # "none"

C33_PrimaryBeforeGhosts ==
    \A p \in Tasks : \A a, b \in 1 .. Len(redlog[p]) :
        ( /\ a < b
          /\ redlog[p][a].mode = TREEWALK_GHOSTS
          /\ redlog[p][b].mode = TREEWALK_PRIMARY )
            => redlog[p][a].place # redlog[p][b].place


\* What the filter loop of the visitor finds for the particle of the call
\* of cull_node drawn: the radius it tests against, and r2.
CullRadius == IF k_in.symmetric THEN Max(k_in.bHsml, k_in.Hsml) ELSE k_in.Hsml
CullR2 == DistanceLoop([Pos |-> k_in.Pos], k_in.bPos, CullRadius * CullRadius, CullBox).r2

\* The particle of the call passes the exact acceptance test.
CullAccepted == CullR2 <= CullRadius * CullRadius

\* C34: cull_node is conservative: for a node whose cube contains a
\* particle b, and a query for which b passes the exact acceptance test
\* (distance <= iter.Hsml, or <= max(P[b].Hsml, iter.Hsml) for a symmetric
\* query, the node's hmax being >= P[b].Hsml), cull_node returns 1.
C34_CullConservative ==
    (k_pc = "returned" /\ CullAccepted) => k_out = 1

\* A symmetric query reached, across the edge of the box, a particle that
\* lies exactly at its own smoothing length, larger than the query's, and
\* the node was opened.
C34_Witness ==
    /\ k_pc = "returned" /\ k_out = 1
    /\ k_in.symmetric /\ k_in.bHsml > k_in.Hsml
    /\ CullR2 = k_in.bHsml * k_in.bHsml
    /\ \E d \in 1 .. 3 :
           2 * (k_in.Pos[d] - k_in.bPos[d]) > CullBox \/ 2 * (k_in.bPos[d] - k_in.Pos[d]) > CullBox


\* ------------------------------------------------ the retry loop, scheduled
\* treewalk_run under the scheduling of the program: the OpenMP threads of
\* a task and the MPI tasks all keep running, so a step that can be taken
\* is taken eventually.
\* Some step of Next can be taken: the collective when every task has
\* arrived, else the local step of the first task in rank order that has
\* one.  (A task that would start sub-iteration MaxIter stays where it is.)
CanStep ==
    \/ \A p \in Tasks : pc[p] = "counts"
    \/ \E p \in Tasks :
          /\ Turn(p) /\ LocalEnabled(p)
          /\ pc[p] = "looptest" => (subiter[p] + 1 < MaxIter \/ Ndone[p] >= tw[p].NTask)

\* The program moves: a step is taken while one can be.  Under [][Next]_vars
\* a step that changes the state is a step of Next, and such a step exists
\* exactly when CanStep holds, so this is <<Next>>_vars with its enabling
\* condition written out.  (The first disjunct, one state change, lets the
\* enabling condition be evaluated without running a tree walk.)
Moves ==
    /\ CanStep
    /\ \/ /\ flaghist' = Append(flaghist, {})
          /\ UNCHANGED <<r_in, pc, tw, DataIndexTable, currentIndex, thr, counts, chanQ,
                         chanR, Ndone, subiter, redlog, kcalls, notrvars>>
       \/ vars' # vars

SpecFair == RInit /\ [][Next]_vars /\ WF_vars(Moves)

\* The entries one thread's slice of DataIndexTable holds.
SliceCapacity == r_in.BunchSize \div r_in.NThread

\* Every target's complete export list fits in one thread's slice.
FitsInSlice ==
    \A p \in Tasks : \A k \in 1 .. tw[p].WorkSetSize :
        Cardinality(CompleteExportList(p, tw[p].WorkSet[k])) <= SliceCapacity

\* The end of a TopTreePhase pass of a task that overflowed moves the
\* task's WorkSetStart forward.
OverflowAdvances ==
    \A p \in Tasks : JoinAfterOverflow(p) => tw'[p].WorkSetStart > tw[p].WorkSetStart

\* C35: if every target's complete export list fits in one thread's slice,
\* treewalk_run eventually leaves its retry loop on every task (Ndone ==
\* NTask), and every sub-iteration in which a task overflowed strictly
\* advances that task's WorkSetStart.
C35_LeavesRetryLoop ==
    /\ FitsInSlice => <>AllDone
    /\ [][OverflowAdvances]_vars


\* Thread tid of task p, its slice full after the for loop, takes the
\* branch that reads tw->WorkSet[k] for lastreal.
RollbackRead(p, tid) ==
    /\ pc[p] = "threads" /\ tid \in DOMAIN thr[p] /\ tid \in DOMAIN thr'[p]
    /\ thr[p][tid].at = "after" /\ thr'[p][tid].at = "done"
    /\ thr[p][tid].lv.Nexport >= thr[p][tid].lv.BunchSize
    /\ thr[p][tid].lastSucceeded < thr[p][tid].end

\* Thread tid of task p is about to read tw->WorkSet[k] in the for loop.
LoopRead(p, tid) ==
    pc[p] = "threads" /\ tid \in DOMAIN thr[p] /\ thr[p][tid].at = "walk"

\* C36: every read of tw->WorkSet[k] in ev_toptree, the one at the head of
\* the for loop and the one in the rollback branch of a thread whose slice
\* is full, uses an index k < WorkSetSize.
C36_WorkSetReadsInBounds ==
    [][\A p \in Tasks : \A tid \in 0 .. MaxThread - 1 :
          (LoopRead(p, tid) \/ RollbackRead(p, tid))
              => thr[p][tid].k < tw[p].WorkSetSize]_vars


\* The tasks that task p exports to, by the counts of the last
\* ev_export_import_counts.
ExportTargetsOf(p) == {t \in Tasks : counts[p].Export_count[t] > 0}

\* C37: after ev_export_import_counts tw->NExportTargets is the number of
\* tasks t in [0, NTask) with Export_count[t] > 0, and the index left in i,
\* with which Export_count is read first, lies in [0, NTask).
C37_NExportTargetsCountsTasks ==
    flaghist # <<>> =>
        \A p \in Tasks :
            /\ tw[p].NExportTargets = Cardinality(ExportTargetsOf(p))
            /\ tw[p].NThread \in 0 .. NTask - 1

====
